---- MODULE Spec2Model ----
(***************************************************************************)
(* Verification model of the complaint-ingestion and idea-generation       *)
(* pipeline of app-idea-hunter: the resilient fetcher                      *)
(* (app/scrapers/base_scraper.py), the complaint processing pipeline       *)
(* (app/services/complaint_processor.py and its filter and deduplication   *)
(* services), the cost monitor (app/services/cost_monitor.py) and the      *)
(* orchestrator (app/routes/scraping.py).                                  *)
(***************************************************************************)
EXTENDS Integers, Sequences, FiniteSets, TLC

VARIABLES
    \* ---- resilient fetcher (BaseScraper._retry_request) ----
    max_retries,    \* self.max_retries
    f_pc,           \* position of the _retry_request coroutine
    f_url,          \* url argument of the running fetch
    f_script,       \* what the server answers to attempt 1, 2, ... of this fetch
    retry_count,    \* local retry_count
    f_attempts,     \* client.request calls made by this fetch
    f_result,       \* "none" while running, then "response" or "failure" (None)
    f_wait,         \* wait_time of the backoff sleep in progress (ticks)
    f_waits,        \* what happened between attempt i and attempt i+1: the cause
                    \* of the retry, the Retry-After header received, and the
                    \* suspension awaited (ticks)
    f_before,       \* len(self.failed_urls) when the fetch was called
    failed_urls,    \* self.failed_urls
    \* ---- cost monitor (CostMonitor) ----
    usage_history,              \* self.usage_history
    max_tokens_per_complaint,   \* self.max_tokens_per_complaint
    now,                        \* datetime.utcnow(), in days
    \* ---- complaint processor (ComplaintProcessor), called on its own ----
    p_pc,           \* "ready", then "batch" or "single" once the call returned
    p_store,        \* content hashes of the Complaints in the store
    p_session,      \* how the call reads the store: "ok", "fails" or "none"
    p_input,        \* complaints_data of the call
    p_existing,     \* existing_hashes as the call came to know them
    p_output,       \* what the call returned
    p_reads,        \* queries the call made on the store
    \* ---- orchestrator (ScrapingService) and the store ----
    pc,                     \* position of each run of run_full_pipeline
    run_stats,               \* stats of each run
    all_complaints,         \* scraped candidates of each run
    processed_complaints,   \* processed_complaints of each run
    gen_idx,                \* position of each run in complaints_for_ai
    pending,                \* objects added to the session of each run and
                            \* not yet committed
    load_failed,            \* whether the hash query of the run raised
    gen_log,                \* outcome of every generate_idea call of the run
    ledger_mark,            \* len(usage_history) when the run started
    ai_service,             \* self.ai_service is set (not None)
    api_key,                \* an OpenAI API key is configured
    scraper_failed,         \* failed_urls of the two scrapers
    store_complaints,       \* rows of table complaints
    store_ideas,            \* rows of table ideas
    store_errors,           \* rows of table errors
    runs_started,           \* runs of run_full_pipeline started so far
    \* ---- AIService: response validation ----
    pr_pc,                  \* "ready", or "parsed" once _parse_response ran
    pr_content,             \* the content of the response that was parsed
    pr_result,              \* what _parse_response returned or raised
    \* ---- AIService: batch_generate_ideas ----
    bg_pc,                  \* "idle", "gathering" or "returned"
    bg_complaints,          \* the complaints argument
    max_concurrent,         \* the max_concurrent argument
    semaphore,              \* value of the asyncio.Semaphore
    task_pc,                \* position of the task of each complaint
    task_reply,             \* what the LLM answers to the call of each task
    task_result,            \* the tuple each finished task returned
    task_calls,             \* LLM calls made by each task
    task_sleeps,            \* seconds each task has slept, sleep by sleep
    task_order,             \* the tasks in the order in which they finished
    bg_results,             \* the list batch_generate_ideas returned
    \* ---- BaseScraper.fetch_multiple_urls ----
    mf_pc,                  \* "idle", "gathering" or "returned"
    mf_urls,                \* the urls argument
    mf_outcome,             \* what _fetch_and_parse does for each url
    mf_done,                \* the order in which the tasks completed
    mf_result,              \* the list fetch_multiple_urls returned
    \* ---- a scraper working through urls with _fetch_and_parse ----
    sc_pc,                  \* "idle", "scraping" or "returned"
    sc_adapter,             \* whose _parse_response the scraper has
    sc_urls,                \* the urls the scrape goes through
    sc_payloads,            \* what _retry_request returns for each url
    sc_failed_urls,         \* self.failed_urls of the scraper
    sc_results,             \* what _fetch_and_parse returned, url by url
    \* ---- SchedulerService and the manual trigger POST /scraping/run ----
    is_running,             \* self.is_running of the scheduler
    last_run,               \* self.last_run (-1 for None)
    call_pc,                \* position of each call of run_scheduled_scraping
                            \* and of each request to run_scraping
    call_run                \* the run of run_full_pipeline a call awaits (0: none)

fetchVars == <<max_retries, f_pc, f_url, f_script, retry_count, f_attempts,
               f_result, f_wait, f_waits, f_before, failed_urls>>

costVars == <<usage_history, max_tokens_per_complaint, now>>

procVars == <<p_pc, p_store, p_session, p_input, p_existing, p_output, p_reads>>

runVars == <<pc, run_stats, all_complaints, processed_complaints, gen_idx, pending,
             load_failed, gen_log, ledger_mark>>

pipeVars == <<runVars, ai_service, api_key, scraper_failed, store_complaints,
              store_ideas, store_errors, runs_started>>

parseVars == <<pr_pc, pr_content, pr_result>>

batchVars == <<bg_pc, bg_complaints, max_concurrent, semaphore, task_pc,
               task_reply, task_result, task_calls, task_sleeps, task_order,
               bg_results>>

aiVars == <<parseVars, batchVars>>

multiVars == <<mf_pc, mf_urls, mf_outcome, mf_done, mf_result>>

scrapeVars == <<sc_pc, sc_adapter, sc_urls, sc_payloads, sc_failed_urls, sc_results>>

scraperVars == <<multiVars, scrapeVars>>

triggerVars == <<is_running, last_run, call_pc, call_run>>

vars == <<fetchVars, costVars, procVars, pipeVars, aiVars, scraperVars, triggerVars>>

\* what the fetcher never touches
notFetchVars == <<costVars, procVars, pipeVars, aiVars, scraperVars, triggerVars>>

\* what the cost monitor never touches
notCostVars == <<fetchVars, procVars, pipeVars, aiVars, scraperVars, triggerVars>>

\* what the complaint processor never touches
notProcVars == <<fetchVars, costVars, pipeVars, aiVars, scraperVars, triggerVars>>

\* what a step inside a run of the pipeline never touches, the cost monitor
\* apart
besidePipeVars == <<fetchVars, procVars, aiVars, scraperVars, triggerVars>>

\* what response validation and batch generation never touch
notAiVars == <<fetchVars, costVars, procVars, pipeVars, scraperVars, triggerVars>>

\* what fetch_multiple_urls never touches
notMultiVars == <<fetchVars, costVars, procVars, pipeVars, aiVars, scrapeVars, triggerVars>>

\* what a scrape through _fetch_and_parse never touches
notScrapeVars == <<fetchVars, costVars, procVars, pipeVars, aiVars, multiVars, triggerVars>>

(***************************************************************************)
(* Bounds of the model.                                                    *)
(***************************************************************************)
MaxRetriesBound == 3     \* max_retries is configured in 0..MaxRetriesBound
MaxFailed == 2           \* a new fetch starts only below this many failure records
TicksPerSecond == 2      \* resolution of the clock: ticks in one second
MaxLedger == 4           \* record_usage is called only below this ledger length
MaxNow == 1              \* the clock advances up to this day
MaxRuns == 2             \* runs of run_full_pipeline that are started
MaxAppends == 3          \* records added to a ledger that is at its cap
MaxUrls == 3             \* longest urls list of fetch_multiple_urls
MaxScrapeUrls == 2       \* urls a scrape goes through with _fetch_and_parse
MaxComplaints == 3       \* longest complaints list of batch_generate_ideas
MaxConcurrentBound == 2  \* max_concurrent is in 0..MaxConcurrentBound

Urls == {"u1", "u2"}

(***************************************************************************)
(* Retry-After header values and Python's int() on them.                   *)
(***************************************************************************)
DigitChars == {"0", "1", "5"}

DigitVal(c) == CASE c = "0" -> 0 [] c = "1" -> 1 [] c = "5" -> 5 [] OTHER -> 0

RECURSIVE DigitsValue(_)
DigitsValue(s) ==
    IF s = <<>> THEN 0
    ELSE 10 * DigitsValue(SubSeq(s, 1, Len(s) - 1)) + DigitVal(s[Len(s)])

AllDigits(s) == Len(s) > 0 /\ \A i \in 1..Len(s) : s[i] \in DigitChars

\* int(retry_after) raises ValueError unless the text is an optionally
\* signed decimal integer
IntParses(s) ==
    \/ AllDigits(s)
    \/ Len(s) > 1 /\ s[1] \in {"-", "+"} /\ AllDigits(Tail(s))

ParseInt(s) ==
    IF AllDigits(s) THEN DigitsValue(s)
    ELSE IF s[1] = "-" THEN 0 - DigitsValue(Tail(s))
    ELSE DigitsValue(Tail(s))

NoHeader == [present |-> FALSE, value |-> <<>>]
Header(v) == [present |-> TRUE, value |-> v]

RetryAfterHeaders ==
    {NoHeader, Header(<<>>), Header(<<"5">>), Header(<<"1", "5">>),
     Header(<<"a">>), Header(<<"5", "a">>)}

(***************************************************************************)
(* Outcomes of one client.request call.                                    *)
(***************************************************************************)
Status(code) == [kind |-> "status", code |-> code, exc |-> "none"]
Timeout == [kind |-> "timeout", code |-> 0, exc |-> "TimeoutException"]
Unexpected == [kind |-> "error", code |-> 0, exc |-> "ConnectError"]

Outcomes == {Status(200), Status(404), Status(429), Status(500), Timeout, Unexpected}

\* sequences over S of length exactly n
RECURSIVE SeqsOfLen(_, _)
SeqsOfLen(S, n) ==
    IF n = 0 THEN {<<>>}
    ELSE {Append(s, x) : s \in SeqsOfLen(S, n - 1), x \in S}

RECURSIVE Pow2(_)
Pow2(n) == IF n <= 0 THEN 1 ELSE 2 * Pow2(n - 1)

(***************************************************************************)
(* BaseScraper._handle_rate_limit                                          *)
(***************************************************************************)
\* the wait_time the handler computes and logs
RateLimitWaitTime(h) ==
    IF h.present /\ h.value # <<>>          \* if retry_after:
    THEN IF IntParses(h.value) THEN ParseInt(h.value) ELSE 60
    ELSE 30

\* asyncio.sleep(wait_time) is called without await: the coroutine object is
\* created and dropped, so the handler returns without suspending
HandleRateLimitSuspension(h) == 0

(***************************************************************************)
(* BaseScraper._record_failed_url                                          *)
(***************************************************************************)
\* variant: the failure is logged and not kept
RecordFailedUrl_LoggedOnly(list, url, error_type) == list

\* self.failed_urls.append({...})
RecordFailedUrl(list, url, error_type) ==
    Append(list, [url |-> url, error_type |-> error_type])

(***************************************************************************)
(* BaseScraper._retry_request                                              *)
(***************************************************************************)
\* variant: the loop gives up one attempt early
LoopContinues_OneShort(rc, mr) == rc < mr - 1

\* while retry_count < self.max_retries
LoopContinues(rc, mr) == rc < mr

\* variant: status 500 itself is taken for a client error
IsServerError_Above500(code) == code > 500

\* variant: every error status is retried
IsServerError_AnyError(code) == code >= 400

\* e.response.status_code >= 500 in the HTTPStatusError handler
IsServerError(code) == code >= 500

\* response.raise_for_status() returns normally
IsSuccess(code) == code >= 200 /\ code < 300

\* variant: the exponent is retry_count
BackoffWaits_NextPower(rc) ==
    {1 * Pow2(rc) * TicksPerSecond + j : j \in 0..(TicksPerSecond - 1)}

\* backoff_base * (2 ** (retry_count - 1)) + random.uniform(0, 1), in ticks
BackoffWaits(rc) == {1 * Pow2(rc - 1) * TicksPerSecond + j : j \in 0..(TicksPerSecond - 1)}

\* the call: retry_count = 0, then the loop head; the first request is sent,
\* or the loop is skipped and the call falls through to "Max retries exceeded"
RetryRequestBegin ==
    /\ f_pc = "idle"
    /\ Len(failed_urls) < MaxFailed
    /\ \E u \in Urls, s \in SeqsOfLen(Outcomes, max_retries) :
        /\ f_url' = u
        /\ f_script' = s
    /\ retry_count' = 0
    /\ f_before' = Len(failed_urls)
    /\ f_waits' = <<>>
    /\ f_wait' = 0
    /\ IF LoopContinues(0, max_retries)
       THEN /\ f_pc' = "request"
            /\ f_attempts' = 1
            /\ f_result' = "none"
            /\ failed_urls' = failed_urls
       ELSE /\ f_pc' = "done"
            /\ f_attempts' = 0
            /\ f_result' = "failure"
            /\ failed_urls' = RecordFailedUrl(failed_urls, f_url', "MaxRetriesError")
    /\ UNCHANGED max_retries
    /\ UNCHANGED notFetchVars

CurrentOutcome == f_script[f_attempts]

\* end of a loop iteration that did not return: back to the loop head after
\* a suspension of `slept` ticks
NextIteration(rc, cause, h, slept) ==
    IF LoopContinues(rc, max_retries)
    THEN /\ f_pc' = "request"
         /\ f_attempts' = f_attempts + 1
         /\ f_waits' = Append(f_waits, [cause |-> cause, header |-> h, slept |-> slept])
         /\ f_result' = "none"
         /\ failed_urls' = failed_urls
    ELSE /\ f_pc' = "done"
         /\ f_attempts' = f_attempts
         /\ f_waits' = f_waits
         /\ f_result' = "failure"
         /\ failed_urls' = RecordFailedUrl(failed_urls, f_url, "MaxRetriesError")

\* 2xx: raise_for_status passes, return response
AttemptSuccess ==
    /\ f_pc = "request"
    /\ CurrentOutcome.kind = "status"
    /\ CurrentOutcome.code # 429
    /\ IsSuccess(CurrentOutcome.code)
    /\ f_pc' = "done"
    /\ f_result' = "response"
    /\ UNCHANGED <<max_retries, f_url, f_script, retry_count, f_attempts,
                   f_wait, f_waits, f_before, failed_urls>>
    /\ UNCHANGED notFetchVars

\* 429: _handle_rate_limit, retry_count += 1, continue
AttemptRateLimited ==
    /\ f_pc = "request"
    /\ CurrentOutcome.kind = "status"
    /\ CurrentOutcome.code = 429
    /\ retry_count' = retry_count + 1
    /\ \E h \in RetryAfterHeaders :
        NextIteration(retry_count', "rate_limit", h, HandleRateLimitSuspension(h))
    /\ UNCHANGED <<max_retries, f_url, f_script, f_wait, f_before>>
    /\ UNCHANGED notFetchVars

\* the part after the try statement: retry_count += 1 and the backoff sleep
AfterRetryable ==
    /\ retry_count' = retry_count + 1
    /\ IF retry_count' < max_retries
       THEN /\ f_pc' = "backoff"
            /\ \E w \in BackoffWaits(retry_count') : f_wait' = w
            /\ UNCHANGED <<f_attempts, f_waits, f_result, failed_urls>>
       ELSE /\ f_wait' = f_wait
            /\ NextIteration(retry_count', "backoff", NoHeader, 0)
    /\ UNCHANGED <<max_retries, f_url, f_script, f_before>>
    /\ UNCHANGED notFetchVars

\* HTTPStatusError with status >= 500: log and retry
AttemptServerError ==
    /\ f_pc = "request"
    /\ CurrentOutcome.kind = "status"
    /\ CurrentOutcome.code # 429
    /\ ~IsSuccess(CurrentOutcome.code)
    /\ IsServerError(CurrentOutcome.code)
    /\ AfterRetryable

\* HTTPStatusError with status < 500: record and return None
AttemptClientError ==
    /\ f_pc = "request"
    /\ CurrentOutcome.kind = "status"
    /\ CurrentOutcome.code # 429
    /\ ~IsSuccess(CurrentOutcome.code)
    /\ ~IsServerError(CurrentOutcome.code)
    /\ failed_urls' = RecordFailedUrl(failed_urls, f_url, "HTTPStatusError")
    /\ f_pc' = "done"
    /\ f_result' = "failure"
    /\ UNCHANGED <<max_retries, f_url, f_script, retry_count, f_attempts,
                   f_wait, f_waits, f_before>>
    /\ UNCHANGED notFetchVars

\* httpx.TimeoutException: log and retry
AttemptTimeout ==
    /\ f_pc = "request"
    /\ CurrentOutcome.kind = "timeout"
    /\ AfterRetryable

\* any other exception: record under the exception's type name, return None
AttemptUnexpected ==
    /\ f_pc = "request"
    /\ CurrentOutcome.kind = "error"
    /\ failed_urls' = RecordFailedUrl(failed_urls, f_url, CurrentOutcome.exc)
    /\ f_pc' = "done"
    /\ f_result' = "failure"
    /\ UNCHANGED <<max_retries, f_url, f_script, retry_count, f_attempts,
                   f_wait, f_waits, f_before>>
    /\ UNCHANGED notFetchVars

\* await asyncio.sleep(wait_time) returns; the loop head follows
BackoffSleep ==
    /\ f_pc = "backoff"
    /\ NextIteration(retry_count, "backoff", NoHeader, f_wait)
    /\ f_wait' = 0
    /\ UNCHANGED <<max_retries, f_url, f_script, retry_count, f_before>>
    /\ UNCHANGED notFetchVars

\* the caller takes the result; the scraper is ready for the next fetch
RetryRequestReturn ==
    /\ f_pc = "done"
    /\ f_pc' = "idle"
    /\ f_url' = "u1"
    /\ f_script' = <<>>
    /\ retry_count' = 0
    /\ f_attempts' = 0
    /\ f_result' = "none"
    /\ f_waits' = <<>>
    /\ f_before' = Len(failed_urls)
    /\ UNCHANGED <<max_retries, f_wait, failed_urls>>
    /\ UNCHANGED notFetchVars

\* a scraper on which no fetch has been made
FetcherAtRest ==
    /\ f_pc = "idle"
    /\ f_url = "u1"
    /\ f_script = <<>>
    /\ retry_count = 0
    /\ f_attempts = 0
    /\ f_result = "none"
    /\ f_wait = 0
    /\ f_waits = <<>>
    /\ f_before = 0
    /\ failed_urls = <<>>

\* a cost monitor with no stored usage sample and the default ceiling
CostMonitorAtRest ==
    /\ usage_history = <<>>
    /\ max_tokens_per_complaint = 600
    /\ now = 0

\* a complaint processor that has not been called
ProcessorAtRest ==
    /\ p_pc = "ready"
    /\ p_store = {}
    /\ p_session = "none"
    /\ p_input = <<>>
    /\ p_existing = {}
    /\ p_output = <<>>
    /\ p_reads = 0

RunIds == {1, 2}

EmptyRunStats ==
    [complaints_scraped |-> 0, complaints_processed |-> 0,
     ideas_generated |-> 0, errors |-> 0]

NoPending == [complaints |-> <<>>, ideas |-> <<>>, errors |-> <<>>]

\* the calls of run_scheduled_scraping that may overlap, s2 being one made
\* while s1 has not returned, and the requests to POST /scraping/run
ScheduledCalls == {"s1", "s2"}
ManualCalls == {"m1"}
Calls == ScheduledCalls \cup ManualCalls

\* a scheduler that has not run, and no request to the manual trigger
TriggersAtRest ==
    /\ is_running = FALSE
    /\ last_run = -1
    /\ call_pc = [c \in Calls |-> "idle"]
    /\ call_run = [c \in Calls |-> 0]

\* no run of the pipeline in progress
RunsAtRest ==
    /\ TriggersAtRest
    /\ pc = [r \in RunIds |-> "idle"]
    /\ run_stats = [r \in RunIds |-> EmptyRunStats]
    /\ all_complaints = [r \in RunIds |-> <<>>]
    /\ processed_complaints = [r \in RunIds |-> <<>>]
    /\ gen_idx = [r \in RunIds |-> 0]
    /\ pending = [r \in RunIds |-> NoPending]
    /\ load_failed = [r \in RunIds |-> FALSE]
    /\ gen_log = [r \in RunIds |-> <<>>]
    /\ ledger_mark = [r \in RunIds |-> 0]

\* a scraping service that has not run, over an empty store
PipelineAtRest ==
    /\ RunsAtRest
    /\ ai_service = FALSE
    /\ api_key = FALSE
    /\ scraper_failed = [reddit |-> <<>>, google_play |-> <<>>]
    /\ store_complaints = {}
    /\ store_ideas = <<>>
    /\ store_errors = <<>>
    /\ runs_started = 0

\* no response is being validated, no batch of generations is under way
AiServiceAtRest ==
    /\ pr_pc = "ready"
    /\ pr_content = <<>>
    /\ pr_result = <<>>
    /\ bg_pc = "idle"
    /\ bg_complaints = <<>>
    /\ max_concurrent = 5
    /\ semaphore = 0
    /\ task_pc = <<>>
    /\ task_reply = <<>>
    /\ task_result = <<>>
    /\ task_calls = <<>>
    /\ task_sleeps = <<>>
    /\ task_order = <<>>
    /\ bg_results = <<>>

\* no concurrent fetch is under way
MultiFetchAtRest ==
    /\ mf_pc = "idle"
    /\ mf_urls = <<>>
    /\ mf_outcome = <<>>
    /\ mf_done = <<>>
    /\ mf_result = <<>>
    /\ sc_pc = "idle"
    /\ sc_adapter = "reddit"
    /\ sc_urls = <<>>
    /\ sc_payloads = <<>>
    /\ sc_failed_urls = <<>>
    /\ sc_results = <<>>

FetchInit ==
    /\ max_retries \in 0..MaxRetriesBound
    /\ FetcherAtRest
    /\ CostMonitorAtRest
    /\ ProcessorAtRest
    /\ PipelineAtRest
    /\ AiServiceAtRest
    /\ MultiFetchAtRest

FetchNext ==
    \/ RetryRequestBegin
    \/ AttemptSuccess
    \/ AttemptRateLimited
    \/ AttemptServerError
    \/ AttemptClientError
    \/ AttemptTimeout
    \/ AttemptUnexpected
    \/ BackoffSleep
    \/ RetryRequestReturn

SpecFetch == FetchInit /\ [][FetchNext]_vars

(***************************************************************************)
(* CostMonitor                                                             *)
(***************************************************************************)
\* money is counted in millionths of a dollar
MicroPerDollar == 1000000

\* self.daily_usage_limit = 100.0
daily_usage_limit == 100 * MicroPerDollar

\* the ledger keeps the last 1000 records
HistoryCap == 1000

\* AIService.get_cost_estimate: (token_count / 1000) * 0.002 dollars
get_cost_estimate(token_count) == 2 * token_count

UsageRecord(ts, len, tokens, cost, ok) ==
    [timestamp |-> ts, complaint_length |-> len, tokens_used |-> tokens,
     cost |-> cost, idea_generated |-> ok]

\* datetime.fromisoformat(record['timestamp']) > cutoff_date
AfterCutoff(record, days) == record.timestamp > now - days

RECURSIVE SumField(_, _)
SumField(records, field) ==
    IF records = <<>> THEN 0
    ELSE records[1][field] + SumField(Tail(records), field)

\* variant: failed generations are averaged in as well
get_mean_tokens_per_complaint_AllRecords(days) ==
    LET recent_usage == SelectSeq(usage_history, LAMBDA r : AfterCutoff(r, days))
    IN  IF recent_usage = <<>> THEN [num |-> 0, den |-> 1]
        ELSE [num |-> SumField(recent_usage, "tokens_used"), den |-> Len(recent_usage)]

\* the mean as the exact fraction num/den that statistics.mean computes
get_mean_tokens_per_complaint(days) ==
    LET recent_usage == SelectSeq(usage_history,
                            LAMBDA r : AfterCutoff(r, days) /\ r.idea_generated)
    IN  IF recent_usage = <<>> THEN [num |-> 0, den |-> 1]
        ELSE [num |-> SumField(recent_usage, "tokens_used"), den |-> Len(recent_usage)]

\* variant: only successful generations are summed
get_total_cost_SuccessfulOnly(days) ==
    SumField(SelectSeq(usage_history,
                 LAMBDA r : AfterCutoff(r, days) /\ r.idea_generated), "cost")

get_total_cost(days) ==
    SumField(SelectSeq(usage_history, LAMBDA r : AfterCutoff(r, days)), "cost")

check_cost_guard(days) ==
    LET mean_tokens == get_mean_tokens_per_complaint(days)
        threshold_exceeded == mean_tokens.num > max_tokens_per_complaint * mean_tokens.den
    IN  [passed |-> ~threshold_exceeded,
         mean_tokens_per_complaint |-> mean_tokens,
         threshold |-> max_tokens_per_complaint,
         threshold_exceeded |-> threshold_exceeded,
         total_cost_period |-> get_total_cost(days),
         total_requests_period |->
             Len(SelectSeq(usage_history, LAMBDA r : AfterCutoff(r, days))),
         period_days |-> days]

Max0(x) == IF x > 0 THEN x ELSE 0

check_daily_limit ==
    LET daily_cost == get_total_cost(1)
    IN  [daily_cost |-> daily_cost,
         daily_limit |-> daily_usage_limit,
         limit_exceeded |-> daily_cost > daily_usage_limit,
         remaining_budget |-> Max0(daily_usage_limit - daily_cost)]

\* variant: the daily limit is not looked at
should_continue_processing_GuardOnly == check_cost_guard(7).passed

should_continue_processing ==
    IF check_daily_limit.limit_exceeded THEN FALSE
    ELSE IF ~check_cost_guard(7).passed THEN FALSE
    ELSE TRUE

\* variant: at the cap the newest records are dropped
record_usage_KeepOldest(history, len, tokens_used, cost, idea_generated) ==
    LET appended == Append(history, UsageRecord(now, len, tokens_used, cost, idea_generated))
    IN  IF Len(appended) > HistoryCap THEN SubSeq(appended, 1, HistoryCap) ELSE appended

\* the ledger after record_usage(complaint_text, tokens_used, cost, idea_generated)
record_usage(history, len, tokens_used, cost, idea_generated) ==
    LET appended == Append(history, UsageRecord(now, len, tokens_used, cost, idea_generated))
    IN  IF Len(appended) > HistoryCap
        THEN SubSeq(appended, Len(appended) - HistoryCap + 1, Len(appended))
        ELSE appended

(***************************************************************************)
(* The cost monitor on its own: a stored usage sample is loaded, usage is  *)
(* recorded and time passes.                                               *)
(***************************************************************************)
TokenSamples == {300, 700}
LengthSamples == {50}
Windows == {1, 7, 30}
Ceilings == {350, 400, 500, 600}

\* usage samples that _load_usage_history may find in sample_tokens.json
StoredSamples ==
    { <<>>,
      << UsageRecord(0, 100, 400, 800, TRUE),
         UsageRecord(0, 80, 500, 1000, TRUE),
         UsageRecord(0, 120, 300, 600, TRUE) >>,
      << UsageRecord(0 - 6, 90, 700, 1400, TRUE),
         UsageRecord(0, 120, 520, 1040, FALSE),
         UsageRecord(0, 100, 400, 800, TRUE) >>,
      << UsageRecord(0 - 29, 90, 900, 1800, TRUE),
         UsageRecord(0, 100, 600, 60 * MicroPerDollar, TRUE) >>,
      << UsageRecord(0, 100, 600, 40 * MicroPerDollar, FALSE) >> }

RecordUsage ==
    /\ Len(usage_history) < MaxLedger
    /\ \E len \in LengthSamples, tokens \in TokenSamples, ok \in BOOLEAN :
        \E cost \in {get_cost_estimate(tokens), 60 * MicroPerDollar} :
            usage_history' = record_usage(usage_history, len, tokens, cost, ok)
    /\ UNCHANGED <<max_tokens_per_complaint, now, notCostVars>>

ClearUsageHistory ==
    /\ usage_history # <<>>
    /\ usage_history' = <<>>
    /\ UNCHANGED <<max_tokens_per_complaint, now, notCostVars>>

\* a day passes
Tick ==
    /\ now < MaxNow
    /\ now' = now + 1
    /\ UNCHANGED <<usage_history, max_tokens_per_complaint, notCostVars>>

CostInit ==
    /\ usage_history \in StoredSamples
    /\ max_tokens_per_complaint \in Ceilings
    /\ now = 0
    /\ max_retries = 3
    /\ FetcherAtRest
    /\ ProcessorAtRest
    /\ PipelineAtRest
    /\ AiServiceAtRest
    /\ MultiFetchAtRest

CostNext ==
    \/ RecordUsage
    \/ ClearUsageHistory
    \/ Tick

SpecCost == CostInit /\ [][CostNext]_vars

(***************************************************************************)
(* The ledger near its cap: a long usage history was loaded and usage is   *)
(* recorded, one record a day.  The n-th record ever made is for a         *)
(* complaint of n characters, and the loaded records were made one a day   *)
(* up to yesterday.                                                        *)
(***************************************************************************)
LongLedger(n) == [i \in 1..n |-> UsageRecord(i - n - 1, i, 300, 600, TRUE)]

\* usage histories of 998 to 1000 records that _load_usage_history may find
LongLedgers == {LongLedger(HistoryCap - k) : k \in 0..2}

LastLength(history) == history[Len(history)].complaint_length

RecordUsageNearCap ==
    /\ now < MaxAppends
    /\ \E tokens \in TokenSamples, ok \in BOOLEAN :
        usage_history' = record_usage(usage_history, LastLength(usage_history) + 1,
                                      tokens, get_cost_estimate(tokens), ok)
    /\ now' = now + 1
    /\ UNCHANGED <<max_tokens_per_complaint, notCostVars>>

LedgerInit ==
    /\ usage_history \in LongLedgers
    /\ max_tokens_per_complaint = 600
    /\ now = 0
    /\ max_retries = 3
    /\ FetcherAtRest
    /\ ProcessorAtRest
    /\ PipelineAtRest
    /\ AiServiceAtRest
    /\ MultiFetchAtRest

LedgerNext == RecordUsageNearCap

SpecLedger == LedgerInit /\ [][LedgerNext]_vars

(***************************************************************************)
(* Texts.  A text is a sequence of pieces: words, punctuation marks and    *)
(* URLs, in the order in which they appear.                                *)
(***************************************************************************)
\* str.lower() on one piece
Lower(w) ==
    CASE w = "This" -> "this"
      [] w = "APP" -> "app"
      [] w = "Terrible" -> "terrible"
      [] w = "I" -> "i"
      [] w = "Bad" -> "bad"
      [] w = "WISH" -> "wish"
      [] OTHER -> w

LowerText(text) == [i \in 1..Len(text) |-> Lower(text[i])]

IsUrlPiece(w) == w \in {"http://x.co", "https://y.io/a"}
IsPunctuation(w) == w \in {"!", ".", ","}

\* len() of one piece, in characters
PieceLen(w) ==
    CASE w \in {"!", ".", ","} -> 1
      [] w \in {"I", "i"} -> 1
      [] w \in {"is", "it"} -> 2
      [] w \in {"app", "APP", "had", "and", "bad", "Bad"} -> 3
      [] w \in {"This", "this", "wish", "WISH", "dark", "mode"} -> 4
      [] w \in {"amazing", "crashes"} -> 7
      [] w \in {"terrible", "Terrible"} -> 8
      [] w = "http://x.co" -> 11
      [] w = "https://y.io/a" -> 14
      [] OTHER -> 5

\* len(text): the pieces are separated by single spaces
RECURSIVE TextLen(_)
TextLen(text) ==
    IF text = <<>> THEN 0
    ELSE IF Len(text) = 1 THEN PieceLen(text[1])
    ELSE PieceLen(text[1]) + 1 + TextLen(Tail(text))

(***************************************************************************)
(* SentimentAnalyzer                                                       *)
(***************************************************************************)
\* sentiment_threshold = -0.3, in hundredths
sentiment_threshold == 0 - 30

\* valence of a lowercased word in the sentiment lexicon, in hundredths of
\* the compound score
Valence(w) ==
    CASE w = "terrible" -> 0 - 48
      [] w = "bad" -> 0 - 54
      [] w = "crashes" -> 0 - 30
      [] w = "amazing" -> 59
      [] w = "wish" -> 40
      [] OTHER -> 0

RECURSIVE SumValence(_)
SumValence(text) ==
    IF text = <<>> THEN 0 ELSE Valence(Lower(text[1])) + SumValence(Tail(text))

\* the compound score, in -100..100
analyze(text) ==
    LET total == SumValence(text)
    IN  IF total > 100 THEN 100 ELSE IF total < 0 - 100 THEN 0 - 100 ELSE total

is_negative_complaint(text) == analyze(text) < sentiment_threshold

idea_keywords ==
    { <<"i", "wish">>, <<"would", "be", "great">>, <<"should", "have">>,
      <<"needs", "to">>, <<"if", "only">>, <<"please", "add">>,
      <<"can", "you", "add">>, <<"hope", "they", "add">>,
      <<"is", "there", "an", "app">>, <<"can", "someone", "make">>,
      <<"why", "isnt", "there">> }

\* keyword in text_lower, word by word
ContainsPhrase(text, phrase) ==
    \E i \in 1..(Len(text) - Len(phrase) + 1) :
        \A k \in 1..Len(phrase) : text[i + k - 1] = phrase[k]

is_idea_or_request(text) ==
    LET text_lower == LowerText(text)
    IN  \E keyword \in idea_keywords : ContainsPhrase(text_lower, keyword)

(***************************************************************************)
(* DeduplicationService                                                    *)
(***************************************************************************)
\* token_limit of the deduplication hash (120 by default)
token_limit == 4

\* URLs are removed, the rest is lowercased and split into word tokens
_tokenize(text) ==
    LowerText(SelectSeq(text, LAMBDA w : ~IsUrlPiece(w) /\ ~IsPunctuation(w)))

FirstN(seq, n) == IF Len(seq) <= n THEN seq ELSE SubSeq(seq, 1, n)

\* variant: every token of the text is digested
generate_hash_AllTokens(text) == _tokenize(text)

\* the SHA-1 digest of ' '.join(tokens) is represented by the token
\* sequence it digests: equal digests for equal sequences, and different
\* ones otherwise
generate_hash(text) == FirstN(_tokenize(text), token_limit)

\* existing_hashes is [given |-> FALSE] for None
NoHashes == [given |-> FALSE, hashes |-> {}]
Hashes(S) == [given |-> TRUE, hashes |-> S]

is_duplicate(text, existing_hashes, hash_cache) ==
    LET text_hash == generate_hash(text)
        hashes_to_check == IF existing_hashes.given THEN existing_hashes.hashes
                           ELSE hash_cache
    IN  text_hash \in hashes_to_check

\* one iteration of the loop of batch_check_duplicates; acc carries results
\* and self._hash_cache
CheckStep(acc, text, existing_hashes) ==
    LET text_hash == generate_hash(text)
        hashes_to_check == IF existing_hashes.given THEN existing_hashes.hashes
                           ELSE acc.hash_cache
        is_dup == text_hash \in hashes_to_check
    IN  [results |-> Append(acc.results,
                        [text |-> text, hash |-> text_hash, is_dup |-> is_dup]),
         hash_cache |-> IF ~is_dup /\ ~existing_hashes.given
                        THEN acc.hash_cache \cup {text_hash}
                        ELSE acc.hash_cache]

RECURSIVE CheckLoop(_, _, _)
CheckLoop(acc, rest, existing_hashes) ==
    IF rest = <<>> THEN acc
    ELSE CheckLoop(CheckStep(acc, rest[1], existing_hashes), Tail(rest), existing_hashes)

\* batch_check_duplicates(texts, existing_hashes): the results, and the
\* cache as the call leaves it
batch_check_duplicates(texts, existing_hashes, hash_cache) ==
    CheckLoop([results |-> <<>>, hash_cache |-> hash_cache], texts, existing_hashes)

(***************************************************************************)
(* ComplaintProcessor                                                      *)
(***************************************************************************)
\* a metadata dict is a set of <<key, value>> pairs; None is not given
NoMetadata == [given |-> FALSE, dict |-> {}]
Metadata(d) == [given |-> TRUE, dict |-> d]

DictSet(d, key, value) == {kv \in d : kv[1] # key} \cup {<<key, value>>}

BoolValue(b) == IF b THEN "True" ELSE "False"

\* metadata['is_idea'] = is_idea, or a new dict when metadata is None
WithIdeaFlag(metadata, is_idea) ==
    IF metadata.given
    THEN Metadata(DictSet(metadata.dict, "is_idea", BoolValue(is_idea)))
    ELSE Metadata({<<"is_idea", BoolValue(is_idea)>>})

Candidate(content, source, source_url, metadata) ==
    [content |-> content, source |-> source, source_url |-> source_url,
     metadata |-> metadata]

\* Complaint(source=..., metadata=metadata, ...): the table model declares
\* extra_data and no field named metadata, so the keyword is not taken as
\* a field value and extra_data keeps its default, None
NewComplaint(id, source, source_url, content, content_hash, sentiment_score, metadata) ==
    [id |-> id, source |-> source, source_url |-> source_url, content |-> content,
     content_hash |-> content_hash, sentiment_score |-> sentiment_score,
     extra_data |-> NoMetadata]

\* variant: only texts that are both negative and a request are kept
PassesFilter_Both(is_negative, is_idea) == is_negative /\ is_idea

\* if not (is_negative or is_idea): the candidate is filtered out
PassesFilter(is_negative, is_idea) == is_negative \/ is_idea

\* variant: only the persisted hashes are looked at
IsKnownHash_StoreOnly(content_hash, batch_hashes, existing_hashes) ==
    content_hash \in existing_hashes

\* content_hash in batch_hashes or content_hash in existing_hashes
IsKnownHash(content_hash, batch_hashes, existing_hashes) ==
    content_hash \in batch_hashes \/ content_hash \in existing_hashes

NoneResult == [is_none |-> TRUE, complaint |-> <<>>]
Some(c) == [is_none |-> FALSE, complaint |-> c]

\* process_complaint(content, source, source_url, metadata, existing_hashes)
process_complaint(data, existing_hashes, hash_cache, id) ==
    LET sentiment_score == analyze(data.content)
        is_negative == is_negative_complaint(data.content)
        is_idea == is_idea_or_request(data.content)
        content_hash == generate_hash(data.content)
    IN  IF ~PassesFilter(is_negative, is_idea) THEN NoneResult
        ELSE IF is_duplicate(data.content, existing_hashes, hash_cache) THEN NoneResult
        ELSE Some(NewComplaint(id, data.source, data.source_url, data.content,
                               content_hash, sentiment_score,
                               WithIdeaFlag(data.metadata, is_idea)))

EmptyStats(total) ==
    [total |-> total, processed |-> 0, filtered_sentiment |-> 0,
     filtered_duplicate |-> 0, filtered_idea |-> 0, errors |-> 0]

Bump(stats, field) == [stats EXCEPT ![field] = @ + 1]

\* variant: a candidate without content or source is skipped uncounted
CountMalformed_Uncounted(stats) == stats

\* if not content or not source: stats['errors'] += 1
CountMalformed(stats) == Bump(stats, "errors")

\* one iteration of the loop of batch_process_complaints; acc carries
\* processed_complaints, batch_hashes and stats, and `fate` notes what
\* became of each candidate
BatchStep(acc, data, existing_hashes, first_id) ==
    IF data.content = <<>> \/ data.source = ""
    THEN [acc EXCEPT !.stats = CountMalformed(@), !.fate = Append(@, "error")]
    ELSE
    LET sentiment_score == analyze(data.content)
        is_negative == is_negative_complaint(data.content)
        is_idea == is_idea_or_request(data.content)
        content_hash == generate_hash(data.content)
    IN  IF ~PassesFilter(is_negative, is_idea)
        THEN [acc EXCEPT !.stats = Bump(@, "filtered_sentiment"),
                         !.fate = Append(@, "filtered")]
        ELSE IF IsKnownHash(content_hash, acc.batch_hashes, existing_hashes)
        THEN [acc EXCEPT !.stats = Bump(@, "filtered_duplicate"),
                         !.fate = Append(@, "duplicate")]
        ELSE [acc EXCEPT
                !.complaints = Append(@,
                    NewComplaint(first_id + Len(acc.complaints), data.source,
                                 data.source_url, data.content, content_hash,
                                 sentiment_score, WithIdeaFlag(data.metadata, is_idea))),
                !.batch_hashes = @ \cup {content_hash},
                !.stats = IF is_idea THEN Bump(Bump(@, "processed"), "filtered_idea")
                          ELSE Bump(@, "processed"),
                !.fate = Append(@, "accepted")]

RECURSIVE BatchLoop(_, _, _, _)
BatchLoop(acc, rest, existing_hashes, first_id) ==
    IF rest = <<>> THEN acc
    ELSE BatchLoop(BatchStep(acc, rest[1], existing_hashes, first_id),
                   Tail(rest), existing_hashes, first_id)

\* batch_process_complaints once existing_hashes is known
batch_process_complaints(complaints_data, existing_hashes, first_id) ==
    BatchLoop([complaints |-> <<>>, batch_hashes |-> {},
               stats |-> EmptyStats(Len(complaints_data)), fate |-> <<>>],
              complaints_data, existing_hashes, first_id)

\* variant: the hashes are queried again for every candidate
HashQueries_PerCandidate(session, total) == IF session = "none" THEN 0 ELSE total

\* existing_hashes = await self.load_existing_hashes(session) if session
\* else set(): the queries batch_process_complaints makes on the store
HashQueries(session, total) == IF session = "none" THEN 0 ELSE 1

\* load_existing_hashes: the hashes in the store, or set() when the query
\* raises; without a session nothing is loaded
load_existing_hashes(store_hashes, session) ==
    IF session = "ok" THEN store_hashes ELSE {}

(***************************************************************************)
(* The complaint processor on its own: a batch, or a single candidate, is  *)
(* processed against a store.                                              *)
(***************************************************************************)
MaxBatch == 4            \* longest complaints_data

T_terrible == <<"This", "app", "is", "terrible">>
T_terrible_again == <<"this", "APP", "is", "Terrible", "!", "http://x.co">>
T_wish == <<"I", "wish", "it", "had", "dark", "mode">>
T_crashes == <<"it", "crashes">>
T_bad == <<"Bad", "app", ",", "it", "crashes">>
T_amazing == <<"This", "app", "is", "amazing">>
T_wish_light == <<"i", "WISH", ",", "it", "had", "light", "mode", "https://y.io/a">>

CandidatePool ==
    { Candidate(T_terrible, "reddit", "r1", Metadata({<<"subreddit", "apps">>})),
      Candidate(T_wish_light, "google_play", "g1", NoMetadata),
      Candidate(T_wish, "reddit", "r2", Metadata({<<"is_idea", "False">>})),
      Candidate(T_bad, "google_play", "g2", NoMetadata),
      Candidate(T_amazing, "reddit", "r3", NoMetadata),
      Candidate(<<>>, "reddit", "r4", NoMetadata),
      Candidate(T_crashes, "", "g3", NoMetadata) }

\* what the store may hold when the processor is called
StoredHashSamples == SUBSET {generate_hash(T_terrible), generate_hash(T_wish)}

RECURSIVE SeqsUpTo(_, _)
SeqsUpTo(S, n) == IF n = 0 THEN {<<>>} ELSE SeqsOfLen(S, n) \cup SeqsUpTo(S, n - 1)

ProcessBatch ==
    /\ p_pc = "ready"
    /\ \E data \in SeqsUpTo(CandidatePool, MaxBatch) :
        LET existing_hashes == load_existing_hashes(p_store, p_session)
        IN  /\ p_input' = data
            /\ p_existing' = existing_hashes
            /\ p_output' = batch_process_complaints(data, existing_hashes, 1)
            /\ p_reads' = HashQueries(p_session, Len(data))
    /\ p_pc' = "batch"
    /\ UNCHANGED <<p_store, p_session, notProcVars>>

ProcessOne ==
    /\ p_pc = "ready"
    /\ \E data \in {c \in CandidatePool : c.content # <<>> /\ c.source # ""},
          existing_hashes \in {NoHashes, Hashes(p_store)} :
        /\ p_input' = <<data>>
        /\ p_existing' = IF existing_hashes.given THEN existing_hashes.hashes ELSE {}
        /\ p_output' = process_complaint(data, existing_hashes, {}, 1)
    /\ p_pc' = "single"
    /\ UNCHANGED <<p_store, p_session, p_reads, notProcVars>>

\* a second process_complaint call on the same processor, with the set the
\* caller gave before or with none; nothing has been added to the set or
\* to the internal cache of the deduplication service meanwhile
ProcessOneMore ==
    /\ p_pc = "single"
    /\ \E data \in {c \in CandidatePool : c.content # <<>> /\ c.source # ""},
          existing_hashes \in {NoHashes, Hashes(p_existing)} :
        /\ p_input' = Append(p_input, data)
        /\ p_output' = [first |-> p_output,
                        second |-> process_complaint(data, existing_hashes, {}, 2)]
    /\ p_pc' = "second"
    /\ UNCHANGED <<p_store, p_session, p_existing, p_reads, notProcVars>>

MaxTexts == 3            \* longest texts list of batch_check_duplicates

TextSamples == {T_terrible, T_terrible_again, T_wish}

\* batch_check_duplicates is called on texts; the known fingerprints are
\* in the set the caller supplies, or in the internal cache
BatchCheckDuplicates ==
    /\ p_pc = "ready"
    /\ \E texts \in SeqsUpTo(TextSamples, MaxTexts) \ {<<>>}, supplied \in BOOLEAN :
        /\ p_input' = [i \in 1..Len(texts) |-> [content |-> texts[i]]]
        /\ p_output' = [supplied |-> supplied,
                        check |-> IF supplied
                                  THEN batch_check_duplicates(texts, Hashes(p_store), {})
                                  ELSE batch_check_duplicates(texts, NoHashes, p_store)]
    /\ p_existing' = p_store
    /\ p_pc' = "checked"
    /\ UNCHANGED <<p_store, p_session, p_reads, notProcVars>>

ProcessInit ==
    /\ p_pc = "ready"
    /\ p_store \in StoredHashSamples
    /\ p_session \in {"ok", "fails", "none"}
    /\ p_input = <<>>
    /\ p_existing = {}
    /\ p_output = <<>>
    /\ p_reads = 0
    /\ max_retries = 3
    /\ FetcherAtRest
    /\ CostMonitorAtRest
    /\ PipelineAtRest
    /\ AiServiceAtRest
    /\ MultiFetchAtRest

ProcessNext ==
    \/ ProcessBatch
    \/ ProcessOne
    \/ ProcessOneMore
    \/ BatchCheckDuplicates

SpecProcess == ProcessInit /\ [][ProcessNext]_vars

(***************************************************************************)
(* ScrapingService.run_full_pipeline over the store.  A step of a run goes *)
(* from one await of the coroutine to the next.                            *)
(***************************************************************************)
\* complaints_for_ai = processed_complaints[:50]
AiBatchLimit == 50

\* generate_idea rejects a text of fewer than 10 characters
MinComplaintChars == 10

T_short == <<"Bad", "app">>

\* what a call of reddit_scraper.scrape() may return, and whether a fetch
\* of it failed for good
RedditResults ==
    { [complaints |-> <<>>, failed |-> TRUE],
      [complaints |-> <<Candidate(T_terrible, "reddit", "r1",
                                  Metadata({<<"subreddit", "apps">>}))>>,
       failed |-> FALSE],
      [complaints |-> <<Candidate(T_wish, "reddit", "r2", NoMetadata),
                        Candidate(T_short, "reddit", "r5", NoMetadata)>>,
       failed |-> FALSE] }

\* what a call of google_play_scraper.scrape() may return
GooglePlayResults ==
    { [complaints |-> <<>>, failed |-> FALSE],
      [complaints |-> <<Candidate(T_terrible_again, "google_play", "g1", NoMetadata),
                        Candidate(T_amazing, "google_play", "g4", NoMetadata)>>,
       failed |-> FALSE],
      [complaints |-> <<Candidate(T_bad, "google_play", "g2", NoMetadata)>>,
       failed |-> TRUE] }

\* what one call of generate_idea ends in once the LLM was called
GenerationOutcomes ==
    { [ok |-> TRUE, tokens_used |-> 700], [ok |-> FALSE, tokens_used |-> 0] }

\* usage histories the cost monitor of the service may have loaded
PipelineLedgers ==
    { <<>>,
      << UsageRecord(0, 100, 500, 1000, TRUE) >>,
      << UsageRecord(0, 100, 600, 101 * MicroPerDollar, TRUE) >> }

Idea(complaint_id, tokens_used) ==
    [complaint_id |-> complaint_id, tokens_used |-> tokens_used]

\* get_failed_urls: one Error per recorded failure
get_failed_urls(source, list) ==
    [i \in 1..Len(list) |->
        [source |-> source, url |-> list[i].url, error_type |-> list[i].error_type]]

RECURSIVE SeqToSet(_)
SeqToSet(seq) == IF seq = <<>> THEN {} ELSE {seq[1]} \cup SeqToSet(Tail(seq))

StoreHashes == {c.content_hash : c \in store_complaints}

\* uuid4(): the id of a new Complaint is one that no Complaint has
FreshId ==
    LET used == {c.id : c \in store_complaints}
                \cup UNION {{processed_complaints[r][i].id :
                                i \in 1..Len(processed_complaints[r])} : r \in RunIds}
    IN  IF used = {} THEN 1 ELSE 1 + CHOOSE m \in used : \A u \in used : u <= m

\* variant: the column is not declared unique
UniqueViolation_NotEnforced(new_rows, rows) == FALSE

\* content_hash is unique=True: an INSERT is rejected when one of the new
\* rows has the content_hash of a stored row or of another new row
UniqueViolation(new_rows, rows) ==
    \/ \E i \in 1..Len(new_rows) : \E c \in rows :
            c.content_hash = new_rows[i].content_hash
    \/ \E i, j \in 1..Len(new_rows) :
            i # j /\ new_rows[i].content_hash = new_rows[j].content_hash

\* the first position from idx on whose complaint gets as far as the LLM
\* call; the complaints before it make generate_idea raise ValueError
RECURSIVE NextCallIdx(_, _)
NextCallIdx(complaints, idx) ==
    IF idx > Len(complaints) THEN idx
    ELSE IF TextLen(complaints[idx].content) < MinComplaintChars
    THEN NextCallIdx(complaints, idx + 1)
    ELSE idx

Failures(n) == [i \in 1..n |-> FALSE]

\* except Exception: await db.rollback(); raise
Raise(r) ==
    /\ pc' = [pc EXCEPT ![r] = "raised"]
    /\ pending' = [pending EXCEPT ![r] = NoPending]

\* the loop over complaints_for_ai from position idx up to its next await:
\* either generate_idea awaits the LLM, or the loop is over and the ideas
\* are committed
RunLoopFrom(r, idx, log, stats_so_far) ==
    LET complaints_for_ai == FirstN(processed_complaints[r], AiBatchLimit)
        j == NextCallIdx(complaints_for_ai, idx)
    IN  /\ gen_idx' = [gen_idx EXCEPT ![r] = j]
        /\ gen_log' = [gen_log EXCEPT ![r] = log \o Failures(j - idx)]
        /\ run_stats' = [run_stats EXCEPT
                            ![r] = [stats_so_far EXCEPT !.errors = @ + (j - idx)]]
        /\ pc' = [pc EXCEPT ![r] = IF j <= Len(complaints_for_ai)
                                    THEN "generating" ELSE "commit_ideas"]

\* all_errors is collected and added to the session
CollectErrors(r, pend) ==
    pending' = [pending EXCEPT ![r] =
        [pend EXCEPT !.errors =
            get_failed_urls("reddit", scraper_failed.reddit)
            \o get_failed_urls("google_play", scraper_failed.google_play)]]

\* variant: the run is admitted without looking at the cost monitor
CostLimitsExceeded_NotChecked == FALSE

\* if not self.cost_monitor.should_continue_processing(): raise
CostLimitsExceeded == ~should_continue_processing

\* run_full_pipeline is called: the cost check, then initialize_ai_service
\* up to the LLM call of test_connection
RunBegins(r) ==
    /\ pc[r] = "idle"
    /\ runs_started < MaxRuns
    /\ runs_started' = runs_started + 1
    /\ run_stats' = [run_stats EXCEPT ![r] = EmptyRunStats]
    /\ ledger_mark' = [ledger_mark EXCEPT ![r] = Len(usage_history)]
    /\ IF CostLimitsExceeded
       THEN /\ Raise(r)
            /\ UNCHANGED ai_service
       ELSE IF api_key
       THEN /\ ai_service' = TRUE
            /\ pc' = [pc EXCEPT ![r] = "test_connection"]
            /\ UNCHANGED pending
       ELSE /\ ai_service' = FALSE
            /\ pc' = [pc EXCEPT ![r] = "scrape_reddit"]
            /\ UNCHANGED pending
    /\ UNCHANGED <<all_complaints, processed_complaints, gen_idx, load_failed,
                   gen_log, api_key, scraper_failed, store_complaints,
                   store_ideas, store_errors>>

\* a run that the service is asked for directly
RunStart(r) ==
    /\ RunBegins(r)
    /\ UNCHANGED <<costVars, besidePipeVars>>

\* test_connection returns, whatever generate_idea did
TestConnectionReturn(r) ==
    /\ pc[r] = "test_connection"
    /\ \E ok \in BOOLEAN : gen_log' = [gen_log EXCEPT ![r] = Append(@, ok)]
    /\ pc' = [pc EXCEPT ![r] = "scrape_reddit"]
    /\ UNCHANGED <<run_stats, all_complaints, processed_complaints, gen_idx,
                   pending, load_failed, ledger_mark, ai_service, api_key,
                   scraper_failed, store_complaints, store_ideas, store_errors, runs_started>>
    /\ UNCHANGED <<costVars, besidePipeVars>>

\* reddit_scraper.scrape() returns one of results; a fetch that failed was
\* recorded
ScrapeRedditFrom(r, results) ==
    /\ pc[r] = "scrape_reddit"
    /\ \E result \in results :
        /\ result.failed => Len(scraper_failed.reddit) < MaxFailed
        /\ all_complaints' = [all_complaints EXCEPT ![r] = result.complaints]
        /\ run_stats' = [run_stats EXCEPT
                            ![r].complaints_scraped = @ + Len(result.complaints)]
        /\ scraper_failed' =
                IF result.failed
                THEN [scraper_failed EXCEPT
                        !.reddit = RecordFailedUrl(@, "u1", "MaxRetriesError")]
                ELSE scraper_failed
    /\ pc' = [pc EXCEPT ![r] = "scrape_google_play"]
    /\ UNCHANGED <<processed_complaints, gen_idx, pending, load_failed, gen_log,
                   ledger_mark, ai_service, api_key, store_complaints,
                   store_ideas, store_errors, runs_started>>
    /\ UNCHANGED <<costVars, besidePipeVars>>

ScrapeReddit(r) == ScrapeRedditFrom(r, RedditResults)

\* google_play_scraper.scrape() returns one of results;
\* batch_process_complaints is called and awaits the hash query
ScrapeGooglePlayFrom(r, results) ==
    /\ pc[r] = "scrape_google_play"
    /\ \E result \in results :
        /\ result.failed => Len(scraper_failed.google_play) < MaxFailed
        /\ all_complaints' = [all_complaints EXCEPT ![r] = @ \o result.complaints]
        /\ run_stats' = [run_stats EXCEPT
                            ![r].complaints_scraped = @ + Len(result.complaints)]
        /\ scraper_failed' =
                IF result.failed
                THEN [scraper_failed EXCEPT
                        !.google_play = RecordFailedUrl(@, "u2", "HTTPStatusError")]
                ELSE scraper_failed
    /\ pc' = [pc EXCEPT ![r] = "load_hashes"]
    /\ UNCHANGED <<processed_complaints, gen_idx, pending, load_failed, gen_log,
                   ledger_mark, ai_service, api_key, store_complaints,
                   store_ideas, store_errors, runs_started>>
    /\ UNCHANGED <<costVars, besidePipeVars>>

ScrapeGooglePlay(r) == ScrapeGooglePlayFrom(r, GooglePlayResults)

\* the hash query returns or raises; the batch is processed, the complaints
\* are added to the session and the commit is awaited
ProcessAndAdd(r) ==
    /\ pc[r] = "load_hashes"
    /\ \E session \in {"ok", "fails"} :
        LET existing_hashes == load_existing_hashes(StoreHashes, session)
            result == batch_process_complaints(all_complaints[r], existing_hashes,
                                               FreshId)
        IN  /\ load_failed' = [load_failed EXCEPT ![r] = (session = "fails")]
            /\ processed_complaints' =
                    [processed_complaints EXCEPT ![r] = result.complaints]
            /\ run_stats' = [run_stats EXCEPT
                    ![r].complaints_processed = result.stats.processed]
            /\ pending' = [pending EXCEPT ![r].complaints = result.complaints]
    /\ pc' = [pc EXCEPT ![r] = "commit_complaints"]
    /\ UNCHANGED <<all_complaints, gen_idx, gen_log, ledger_mark, ai_service,
                   api_key, scraper_failed, store_complaints, store_ideas,
                   store_errors, runs_started>>
    /\ UNCHANGED <<costVars, besidePipeVars>>

\* variant: the complaints stay in the session until the ideas are committed
CommittedRows_Deferred(rows, new_rows) == rows

\* for complaint in processed_complaints: db.add(complaint); await db.commit()
CommittedRows(rows, new_rows) == rows \cup SeqToSet(new_rows)

\* the commit of the complaints succeeds; the run goes on to its next await
CommitComplaints(r) ==
    /\ pc[r] = "commit_complaints"
    /\ ~UniqueViolation(pending[r].complaints, store_complaints)
    /\ store_complaints' = CommittedRows(store_complaints, pending[r].complaints)
    /\ IF ai_service /\ processed_complaints[r] # <<>>
       THEN /\ RunLoopFrom(r, 1, gen_log[r], run_stats[r])
            /\ pending' = [pending EXCEPT ![r].complaints = <<>>]
       ELSE /\ CollectErrors(r, [pending[r] EXCEPT !.complaints = <<>>])
            /\ pc' = [pc EXCEPT ![r] = "commit_errors"]
            /\ UNCHANGED <<gen_idx, gen_log, run_stats>>
    /\ UNCHANGED <<all_complaints, processed_complaints, load_failed,
                   ledger_mark, ai_service, api_key, scraper_failed,
                   store_ideas, store_errors, runs_started>>
    /\ UNCHANGED <<costVars, besidePipeVars>>

\* a commit raises: always when a unique constraint is violated, and
\* whenever the database fails
CommitFails(r) ==
    /\ pc[r] \in {"commit_complaints", "commit_ideas", "commit_errors"}
    /\ Raise(r)
    /\ UNCHANGED <<run_stats, all_complaints, processed_complaints, gen_idx,
                   load_failed, gen_log, ledger_mark, ai_service, api_key,
                   scraper_failed, store_complaints, store_ideas, store_errors, runs_started>>
    /\ UNCHANGED <<costVars, besidePipeVars>>

\* variant: a failed generation empties the session
IdeasAfterFailure_Dropped(ideas) == <<>>

\* except Exception: the ideas added to the session so far stay in it
IdeasAfterFailure(ideas) == ideas

\* variant: the loop stays on the complaint it has just handled
NextComplaint_Same(idx) == idx

\* for complaint in complaints_for_ai: the position after idx
NextComplaint(idx) == idx + 1

\* generate_idea returns or raises after its LLM call; the loop goes on
GenerateReturn(r) ==
    /\ pc[r] = "generating"
    /\ \E outcome \in GenerationOutcomes :
        LET complaint == processed_complaints[r][gen_idx[r]]
        IN  IF outcome.ok
            THEN /\ usage_history' =
                        record_usage(usage_history, TextLen(complaint.content),
                                     outcome.tokens_used,
                                     get_cost_estimate(outcome.tokens_used), TRUE)
                 /\ pending' = [pending EXCEPT ![r].ideas =
                        Append(@, Idea(complaint.id, outcome.tokens_used))]
                 /\ RunLoopFrom(r, NextComplaint(gen_idx[r]), Append(gen_log[r], TRUE),
                                Bump(run_stats[r], "ideas_generated"))
            ELSE /\ UNCHANGED usage_history
                 /\ pending' = [pending EXCEPT ![r].ideas = IdeasAfterFailure(@)]
                 /\ RunLoopFrom(r, NextComplaint(gen_idx[r]), Append(gen_log[r], FALSE),
                                Bump(run_stats[r], "errors"))
    /\ UNCHANGED <<all_complaints, processed_complaints, load_failed,
                   ledger_mark, ai_service, api_key, scraper_failed,
                   store_complaints, store_ideas, store_errors,
                   runs_started>>
    /\ UNCHANGED <<max_tokens_per_complaint, now, besidePipeVars>>

\* the commit of the ideas succeeds; the errors are collected and added
CommitIdeas(r) ==
    /\ pc[r] = "commit_ideas"
    /\ store_ideas' = store_ideas \o pending[r].ideas
    /\ CollectErrors(r, [pending[r] EXCEPT !.ideas = <<>>])
    /\ pc' = [pc EXCEPT ![r] = "commit_errors"]
    /\ UNCHANGED <<run_stats, all_complaints, processed_complaints, gen_idx,
                   load_failed, gen_log, ledger_mark, ai_service, api_key,
                   scraper_failed, store_complaints, store_errors, runs_started>>
    /\ UNCHANGED <<costVars, besidePipeVars>>

\* the commit of the errors succeeds; stats is returned
CommitErrors(r) ==
    /\ pc[r] = "commit_errors"
    /\ store_errors' = store_errors \o pending[r].errors
    /\ pending' = [pending EXCEPT ![r] = NoPending]
    /\ pc' = [pc EXCEPT ![r] = "returned"]
    /\ UNCHANGED <<run_stats, all_complaints, processed_complaints, gen_idx,
                   load_failed, gen_log, ledger_mark, ai_service, api_key,
                   scraper_failed, store_complaints, store_ideas, runs_started>>
    /\ UNCHANGED <<costVars, besidePipeVars>>

\* the caller has taken the result or the exception; the locals are gone
RunIsOver(r) ==
    /\ pc[r] \in {"returned", "raised"}
    /\ pc' = [pc EXCEPT ![r] = "idle"]
    /\ run_stats' = [run_stats EXCEPT ![r] = EmptyRunStats]
    /\ all_complaints' = [all_complaints EXCEPT ![r] = <<>>]
    /\ processed_complaints' = [processed_complaints EXCEPT ![r] = <<>>]
    /\ gen_idx' = [gen_idx EXCEPT ![r] = 0]
    /\ load_failed' = [load_failed EXCEPT ![r] = FALSE]
    /\ gen_log' = [gen_log EXCEPT ![r] = <<>>]
    /\ ledger_mark' = [ledger_mark EXCEPT ![r] = 0]
    /\ UNCHANGED <<pending, ai_service, api_key, scraper_failed,
                   store_complaints, store_ideas, store_errors, runs_started>>

\* the end of a run that the service was asked for directly
RunEnd(r) ==
    /\ RunIsOver(r)
    /\ UNCHANGED <<costVars, besidePipeVars>>

\* the runs the scraping service makes one after the other
SequentialRuns == {1}

PipelineInit ==
    /\ AiServiceAtRest
    /\ MultiFetchAtRest
    /\ usage_history \in PipelineLedgers
    /\ max_tokens_per_complaint = 600
    /\ now = 0
    /\ max_retries = 3
    /\ FetcherAtRest
    /\ ProcessorAtRest
    /\ RunsAtRest
    /\ ai_service = FALSE
    /\ api_key \in BOOLEAN
    /\ scraper_failed = [reddit |-> <<>>, google_play |-> <<>>]
    /\ store_complaints = {}
    /\ store_ideas = <<>>
    /\ store_errors = <<>>
    /\ runs_started = 0

PipelineNext ==
    \/ \E r \in SequentialRuns :
        \/ RunStart(r)
        \/ TestConnectionReturn(r)
        \/ ScrapeReddit(r)
        \/ ScrapeGooglePlay(r)
        \/ ProcessAndAdd(r)
        \/ CommitComplaints(r)
        \/ CommitFails(r)
        \/ GenerateReturn(r)
        \/ CommitIdeas(r)
        \/ CommitErrors(r)
        \/ RunEnd(r)
    \/ Tick

SpecPipeline == PipelineInit /\ [][PipelineNext]_vars

(***************************************************************************)
(* SchedulerService.run_scheduled_scraping and the manual trigger          *)
(* run_scraping.  Both run run_full_pipeline of the one scraping_service,  *)
(* as coroutines of one event loop: a step goes from one await to the      *)
(* next.                                                                   *)
(***************************************************************************)
\* what a call into run_full_pipeline leaves alone besides the scraping
\* service itself
outsideRunVars == <<costVars, fetchVars, procVars, aiVars, scraperVars>>

\* what the scheduler and the manual trigger never touch themselves
notTriggerVars == <<fetchVars, costVars, procVars, pipeVars, aiVars, scraperVars>>

\* runs asked for so far, those not yet begun included
RunsAskedFor ==
    runs_started + Cardinality({c \in Calls : call_pc[c] \in {"session", "queued"}})

\* the coroutine frame of the next run of run_full_pipeline
FreeRuns == {r \in RunIds : pc[r] = "idle" /\ \A c \in Calls : call_run[c] # r}

NextFreeRun == CHOOSE r \in FreeRuns : \A q \in FreeRuns : r <= q

\* variant: the scheduler does not look at the flag
AlreadyRunning_NotLookedAt == FALSE

\* if self.is_running: return
AlreadyRunning == is_running

\* run_scheduled_scraping is called: it returns at once when a scheduled
\* run is in progress, and otherwise sets is_running and last_run and
\* asks for a database session
ScheduledCall(c) ==
    /\ call_pc[c] = "idle"
    /\ c = "s2" => call_pc["s1"] # "idle"
    /\ IF AlreadyRunning
       THEN /\ call_pc' = [call_pc EXCEPT ![c] = "skipped"]
            /\ UNCHANGED <<is_running, last_run>>
       ELSE /\ RunsAskedFor < MaxRuns
            /\ is_running' = TRUE
            /\ last_run' = now
            /\ call_pc' = [call_pc EXCEPT ![c] = "session"]
    /\ UNCHANGED call_run
    /\ UNCHANGED notTriggerVars

\* the session is there: run_full_pipeline is called and runs up to its
\* first await
SessionOpens(c) ==
    /\ call_pc[c] = "session"
    /\ FreeRuns # {}
    /\ RunBegins(NextFreeRun)
    /\ call_run' = [call_run EXCEPT ![c] = NextFreeRun]
    /\ call_pc' = [call_pc EXCEPT ![c] = "pipeline"]
    /\ UNCHANGED <<is_running, last_run>>
    /\ UNCHANGED outsideRunVars

\* db_manager.get_session() raises: except Exception logs, finally resets
SessionFails(c) ==
    /\ call_pc[c] = "session"
    /\ is_running' = FALSE
    /\ call_pc' = [call_pc EXCEPT ![c] = "idle"]
    /\ UNCHANGED <<last_run, call_run>>
    /\ UNCHANGED notTriggerVars

\* run_full_pipeline returns its stats or raises; the session is closed
ScheduledRunOver(c) ==
    /\ call_pc[c] = "pipeline"
    /\ RunIsOver(call_run[c])
    /\ call_pc' = [call_pc EXCEPT ![c] = "closing"]
    /\ call_run' = [call_run EXCEPT ![c] = 0]
    /\ UNCHANGED <<is_running, last_run>>
    /\ UNCHANGED outsideRunVars

\* finally: self.is_running = False
FlagAfterRun == FALSE

\* the try statement is left, through its end or through except Exception
ScheduledCallEnds(c) ==
    /\ call_pc[c] = "closing"
    /\ is_running' = FlagAfterRun
    /\ call_pc' = [call_pc EXCEPT ![c] = "idle"]
    /\ UNCHANGED <<last_run, call_run>>
    /\ UNCHANGED notTriggerVars

\* POST /scraping/run: background_tasks.add_task(run_full_pipeline, db),
\* and the response is returned
ManualTrigger(c) ==
    /\ call_pc[c] = "idle"
    /\ RunsAskedFor < MaxRuns
    /\ call_pc' = [call_pc EXCEPT ![c] = "queued"]
    /\ UNCHANGED <<is_running, last_run, call_run>>
    /\ UNCHANGED notTriggerVars

\* the background task is started: run_full_pipeline runs up to its first
\* await
BackgroundTaskStarts(c) ==
    /\ call_pc[c] = "queued"
    /\ FreeRuns # {}
    /\ RunBegins(NextFreeRun)
    /\ call_run' = [call_run EXCEPT ![c] = NextFreeRun]
    /\ call_pc' = [call_pc EXCEPT ![c] = "pipeline"]
    /\ UNCHANGED <<is_running, last_run>>
    /\ UNCHANGED outsideRunVars

\* the background task is over, with stats or with an exception
BackgroundTaskEnds(c) ==
    /\ call_pc[c] = "pipeline"
    /\ RunIsOver(call_run[c])
    /\ call_pc' = [call_pc EXCEPT ![c] = "idle"]
    /\ call_run' = [call_run EXCEPT ![c] = 0]
    /\ UNCHANGED <<is_running, last_run>>
    /\ UNCHANGED outsideRunVars

\* the skipped call has returned to the scheduler, which may call again
SkippedCallReturned(c) ==
    /\ call_pc[c] = "skipped"
    /\ call_pc' = [call_pc EXCEPT ![c] = "idle"]
    /\ UNCHANGED <<is_running, last_run, call_run>>
    /\ UNCHANGED notTriggerVars

\* what the scrapers may return to a run that a trigger started
TriggeredRedditResults ==
    { [complaints |-> <<>>, failed |-> FALSE],
      [complaints |-> <<Candidate(T_terrible, "reddit", "r1",
                                  Metadata({<<"subreddit", "apps">>}))>>,
       failed |-> TRUE] }

TriggeredGooglePlayResults ==
    { [complaints |-> <<Candidate(T_bad, "google_play", "g2", NoMetadata)>>,
       failed |-> FALSE] }

TriggerInit ==
    /\ AiServiceAtRest
    /\ MultiFetchAtRest
    /\ CostMonitorAtRest
    /\ max_retries = 3
    /\ FetcherAtRest
    /\ ProcessorAtRest
    /\ RunsAtRest
    /\ ai_service = FALSE
    /\ api_key \in BOOLEAN
    /\ scraper_failed = [reddit |-> <<>>, google_play |-> <<>>]
    /\ store_complaints = {}
    /\ store_ideas = <<>>
    /\ store_errors = <<>>
    /\ runs_started = 0

TriggerNext ==
    \/ \E c \in ScheduledCalls :
        \/ ScheduledCall(c)
        \/ SessionOpens(c)
        \/ SessionFails(c)
        \/ ScheduledRunOver(c)
        \/ ScheduledCallEnds(c)
    \/ \E c \in ManualCalls :
        \/ ManualTrigger(c)
        \/ BackgroundTaskStarts(c)
        \/ BackgroundTaskEnds(c)
    \/ \E c \in ScheduledCalls : SkippedCallReturned(c)
    \/ \E r \in RunIds :
        \/ TestConnectionReturn(r)
        \/ ScrapeRedditFrom(r, TriggeredRedditResults)
        \/ ScrapeGooglePlayFrom(r, TriggeredGooglePlayResults)
        \/ ProcessAndAdd(r)
        \/ CommitComplaints(r)
        \/ CommitFails(r)
        \/ GenerateReturn(r)
        \/ CommitIdeas(r)
        \/ CommitErrors(r)

SpecTriggers == TriggerInit /\ [][TriggerNext]_vars

(***************************************************************************)
(* AIService._parse_response.  The content of a response is either text    *)
(* that json.loads rejects, or a JSON object: a function from some field   *)
(* names to JSON values.                                                   *)
(***************************************************************************)
JInt(n) == [type |-> "int", val |-> n]
JBool(b) == [type |-> "bool", val |-> IF b THEN 1 ELSE 0]
JFloat(tenths) == [type |-> "float", val |-> tenths]
JStr(text) == [type |-> "str", val |-> text]
JNull == [type |-> "null", val |-> 0]

NotJson == [is_json |-> FALSE, obj |-> <<>>]
JsonObject(obj) == [is_json |-> TRUE, obj |-> obj]

required_fields ==
    <<"idea", "score_market", "score_tech", "score_competition",
      "score_monetisation", "score_feasibility", "score_overall">>

\* [f for f in required_fields if f.startswith('score_')]
score_fields == Tail(required_fields)

\* isinstance(score, int): bool is a subclass of int, True is 1, False is 0
IsInstanceInt(v) == v.type \in {"int", "bool"}

\* variant: scores from 0 to 10 are let through
ScoreValid_FromZero(score) == IsInstanceInt(score) /\ 0 <= score.val /\ score.val <= 10

\* not (not isinstance(score, int) or not 1 <= score <= 10)
ScoreValid(score) == IsInstanceInt(score) /\ 1 <= score.val /\ score.val <= 10

IsWhitespace(w) == w \in {" ", "\n"}

\* idea_text.strip(): the text without its leading and trailing whitespace
RECURSIVE LStrip(_)
LStrip(text) ==
    IF text = <<>> THEN <<>>
    ELSE IF IsWhitespace(text[1]) THEN LStrip(Tail(text))
    ELSE text

\* len(idea_text.strip()) == 0
StripsToEmpty(text) == LStrip(text) = <<>>

\* len(idea_text.split())
WordCount(text) == Len(SelectSeq(text, LAMBDA w : ~IsWhitespace(w)))

\* variant: every failure is raised with one and the same message
ParseError_OneMessage(message, field) ==
    [ok |-> FALSE, error |-> "Invalid response", field |-> field, idea_data |-> <<>>]

\* raise ValueError(message), the message naming the field
ParseError(message, field) == [ok |-> FALSE, error |-> message, field |-> field, idea_data |-> <<>>]
Parsed(idea_data) == [ok |-> TRUE, error |-> "", field |-> "", idea_data |-> idea_data]

\* the first field of the list, in order, that is in the set bad; "" if none
RECURSIVE FirstField(_, _)
FirstField(fields, bad) ==
    IF fields = <<>> THEN ""
    ELSE IF fields[1] \in bad THEN fields[1]
    ELSE FirstField(Tail(fields), bad)

FieldSet(fields) == {fields[i] : i \in 1..Len(fields)}

_parse_response(content) ==
    IF ~content.is_json THEN ParseError("Invalid JSON response", "")
    ELSE
    LET idea_data == content.obj
        missing == FirstField(required_fields,
                              {f \in FieldSet(required_fields) : f \notin DOMAIN idea_data})
    IN  IF missing # "" THEN ParseError("Missing required field", missing)
        ELSE
        LET invalid == FirstField(score_fields,
                                  {f \in FieldSet(score_fields) : ~ScoreValid(idea_data[f])})
        IN  IF invalid # "" THEN ParseError("Invalid score", invalid)
            ELSE IF idea_data["idea"].type # "str" \/ StripsToEmpty(idea_data["idea"].val)
            THEN ParseError("Idea text cannot be empty", "idea")
            ELSE Parsed(idea_data)

(***************************************************************************)
(* Response validation on its own: one response is validated.              *)
(***************************************************************************)
ScoreSamples ==
    { JInt(0), JInt(1), JInt(5), JInt(10), JInt(11), JFloat(55), JBool(TRUE),
      JBool(FALSE), JStr(<<"7">>), JNull }

LongIdea == [i \in 1..36 |-> "word"]

IdeaSamples ==
    { JStr(<<"An", " ", "app">>), JStr(<<>>), JStr(<<" ", "\n">>),
      JStr(<<" ", "app", "\n">>), JStr(LongIdea), JInt(5), JNull }

\* a response with the given idea, score_market and score_overall, the other
\* scores being 5
ResponseObject(idea, score_market, score_overall) ==
    [f \in FieldSet(required_fields) |->
        CASE f = "idea" -> idea
          [] f = "score_market" -> score_market
          [] f = "score_overall" -> score_overall
          [] OTHER -> JInt(5)]

Without(obj, field) == [f \in (DOMAIN obj) \ {field} |-> obj[f]]

ResponseSamples ==
    {NotJson}
    \cup { JsonObject(ResponseObject(idea, m, o)) :
                idea \in IdeaSamples, m \in ScoreSamples, o \in ScoreSamples }
    \cup { JsonObject(Without(ResponseObject(JStr(<<"An", " ", "app">>), JInt(7), JInt(7)), f)) :
                f \in FieldSet(required_fields) }

ParseResponse ==
    /\ pr_pc = "ready"
    /\ \E content \in ResponseSamples :
        /\ pr_content' = content
        /\ pr_result' = _parse_response(content)
    /\ pr_pc' = "parsed"
    /\ UNCHANGED <<batchVars, notAiVars>>

ParseInit ==
    /\ max_retries = 3
    /\ FetcherAtRest
    /\ CostMonitorAtRest
    /\ ProcessorAtRest
    /\ PipelineAtRest
    /\ AiServiceAtRest
    /\ MultiFetchAtRest

ParseNext == ParseResponse

SpecParse == ParseInit /\ [][ParseNext]_vars

(***************************************************************************)
(* AIService.generate_idea and batch_generate_ideas.  Every complaint has  *)
(* a task; a step of a task goes from one await to the next.               *)
(***************************************************************************)
None == [is_none |-> TRUE, value |-> <<>>]
Just(v) == [is_none |-> FALSE, value |-> v]

\* await asyncio.sleep(60) after a RateLimitError
rate_limit_cooldown == 60

ValidContent == JsonObject(ResponseObject(JStr(<<"An", " ", "app">>), JInt(7), JInt(8)))

\* what the LLM provider may answer to one call
Replies ==
    { [kind |-> "response", content |-> ValidContent, total_tokens |-> 300],
      [kind |-> "response", content |-> NotJson, total_tokens |-> 300],
      [kind |-> "RateLimitError", content |-> NotJson, total_tokens |-> 0],
      [kind |-> "APIError", content |-> NotJson, total_tokens |-> 0] }

BatchTexts == {T_terrible, T_short}

\* variant: no cooldown before the error is raised again
CooldownSleeps_None(kind) == <<>>

\* the sleeps _call_openai_api makes before it raises the error again
CooldownSleeps(kind) ==
    IF kind = "RateLimitError" THEN <<rate_limit_cooldown>> ELSE <<>>

\* variant: the semaphore lets every task in
SemaphoreFree_Always(value) == TRUE

\* Semaphore.acquire returns at once when the value is positive
SemaphoreFree(value) == value > 0

\* the tuple process_complaint returns
ItemResult(complaint_text, idea_data, error_msg) ==
    [complaint |-> complaint_text, idea_data |-> idea_data, error |-> error_msg]

\* what generate_idea returns or raises once the LLM has answered
AfterReply(complaint_text, reply) ==
    IF reply.kind # "response"
    THEN ItemResult(complaint_text, None, Just(reply.kind))
    ELSE LET parsed == _parse_response(reply.content)
         IN  IF parsed.ok
             THEN ItemResult(complaint_text,
                             Just([idea_data |-> parsed.idea_data,
                                   tokens_used |-> reply.total_tokens]),
                             None)
             ELSE ItemResult(complaint_text, None, Just(parsed.error))

\* variant: a task whose generation failed keeps its slot
SemaphoreReleased_OnSuccessOnly(value, result) ==
    IF result.error.is_none THEN value + 1 ELSE value

\* async with semaphore: the slot is given back when the block is left,
\* through return in the try branch or in the except branch
SemaphoreReleased(value, result) == value + 1

Finish(i, result) ==
    /\ task_pc' = [task_pc EXCEPT ![i] = "done"]
    /\ task_result' = [task_result EXCEPT ![i] = result]
    /\ task_order' = Append(task_order, i)

\* the task holds the semaphore and calls generate_idea: ValueError for a
\* text of fewer than 10 characters, the LLM call otherwise
EnterGenerate(i) ==
    IF TextLen(bg_complaints[i]) < MinComplaintChars
    THEN /\ Finish(i, ItemResult(bg_complaints[i], None, Just("ValueError")))
         /\ UNCHANGED <<semaphore, task_calls>>
    ELSE /\ task_pc' = [task_pc EXCEPT ![i] = "calling"]
         /\ task_calls' = [task_calls EXCEPT ![i] = @ + 1]
         /\ semaphore' = semaphore - 1
         /\ UNCHANGED <<task_result, task_order>>

\* batch_generate_ideas(complaints, max_concurrent) up to its gather
BatchGenerateBegin ==
    /\ bg_pc = "idle"
    /\ \E complaints \in SeqsUpTo(BatchTexts, MaxComplaints) \ {<<>>},
          mc \in 0..MaxConcurrentBound :
        /\ bg_complaints' = complaints
        /\ max_concurrent' = mc
        /\ semaphore' = mc
        /\ task_pc' = [i \in 1..Len(complaints) |-> "created"]
        /\ \E replies \in SeqsOfLen(Replies, Len(complaints)) : task_reply' = replies
        /\ task_result' = [i \in 1..Len(complaints) |-> <<>>]
        /\ task_calls' = [i \in 1..Len(complaints) |-> 0]
        /\ task_sleeps' = [i \in 1..Len(complaints) |-> <<>>]
    /\ task_order' = <<>>
    /\ bg_results' = <<>>
    /\ bg_pc' = "gathering"
    /\ UNCHANGED <<parseVars, notAiVars>>

\* a task runs for the first time, after the tasks created before it
TaskStart(i) ==
    /\ bg_pc = "gathering"
    /\ task_pc[i] = "created"
    /\ \A j \in 1..(i - 1) : task_pc[j] # "created"
    /\ IF SemaphoreFree(semaphore)
       THEN EnterGenerate(i)
       ELSE /\ task_pc' = [task_pc EXCEPT ![i] = "waiting"]
            /\ UNCHANGED <<semaphore, task_calls, task_result, task_order>>
    /\ UNCHANGED <<bg_pc, bg_complaints, max_concurrent, task_reply, task_sleeps,
                   bg_results>>
    /\ UNCHANGED <<parseVars, notAiVars>>

\* a task that waited for the semaphore gets it
TaskAcquire(i) ==
    /\ bg_pc = "gathering"
    /\ task_pc[i] = "waiting"
    /\ SemaphoreFree(semaphore)
    /\ EnterGenerate(i)
    /\ UNCHANGED <<bg_pc, bg_complaints, max_concurrent, task_reply, task_sleeps,
                   bg_results>>
    /\ UNCHANGED <<parseVars, notAiVars>>

\* the LLM answers the call of a task
TaskReply(i) ==
    /\ bg_pc = "gathering"
    /\ task_pc[i] = "calling"
    /\ LET sleeps == CooldownSleeps(task_reply[i].kind)
       IN  IF sleeps # <<>>
           THEN /\ task_pc' = [task_pc EXCEPT ![i] = "cooldown"]
                /\ task_sleeps' = [task_sleeps EXCEPT ![i] = @ \o sleeps]
                /\ UNCHANGED <<semaphore, task_result, task_order>>
           ELSE /\ Finish(i, AfterReply(bg_complaints[i], task_reply[i]))
                /\ semaphore' = SemaphoreReleased(semaphore,
                                    AfterReply(bg_complaints[i], task_reply[i]))
                /\ UNCHANGED task_sleeps
    /\ UNCHANGED <<bg_pc, bg_complaints, max_concurrent, task_reply, task_calls,
                   bg_results>>
    /\ UNCHANGED <<parseVars, notAiVars>>

\* the cooldown is over: the RateLimitError is raised again
TaskCooldownOver(i) ==
    /\ bg_pc = "gathering"
    /\ task_pc[i] = "cooldown"
    /\ Finish(i, AfterReply(bg_complaints[i], task_reply[i]))
    /\ semaphore' = SemaphoreReleased(semaphore,
                        AfterReply(bg_complaints[i], task_reply[i]))
    /\ UNCHANGED <<bg_pc, bg_complaints, max_concurrent, task_reply, task_calls,
                   task_sleeps, bg_results>>
    /\ UNCHANGED <<parseVars, notAiVars>>

\* variant: the results are listed in the order in which the tasks finished
GatherResults_AsCompleted(results, order) ==
    [k \in 1..Len(order) |-> results[order[k]]]

\* asyncio.gather: the results in the order of the awaitables
GatherResults(results, order) == results

\* every task is done: gather returns and the results are listed
BatchGenerateReturn ==
    /\ bg_pc = "gathering"
    /\ \A i \in 1..Len(task_pc) : task_pc[i] = "done"
    /\ bg_results' = GatherResults(task_result, task_order)
    /\ bg_pc' = "returned"
    /\ UNCHANGED <<bg_complaints, max_concurrent, semaphore, task_pc, task_reply,
                   task_result, task_calls, task_sleeps, task_order>>
    /\ UNCHANGED <<parseVars, notAiVars>>

BatchInit ==
    /\ max_retries = 3
    /\ FetcherAtRest
    /\ CostMonitorAtRest
    /\ ProcessorAtRest
    /\ PipelineAtRest
    /\ AiServiceAtRest
    /\ MultiFetchAtRest

BatchNext ==
    \/ BatchGenerateBegin
    \/ \E i \in 1..Len(task_pc) :
        \/ TaskStart(i)
        \/ TaskAcquire(i)
        \/ TaskReply(i)
        \/ TaskCooldownOver(i)
    \/ BatchGenerateReturn

SpecBatch == BatchInit /\ [][BatchNext]_vars

\* a step of one of the tasks of the batch
TaskStep ==
    \E i \in 1..Len(task_pc) :
        TaskStart(i) \/ TaskAcquire(i) \/ TaskReply(i) \/ TaskCooldownOver(i)

\* the event loop runs a task that is ready, every LLM call returns or
\* raises in the end and every sleep ends; gather returns once its tasks
\* are done.  Whether and when batch_generate_ideas is called is up to the
\* caller.
SpecBatchLive ==
    /\ BatchInit
    /\ [][BatchNext]_vars
    /\ WF_vars(TaskStep)
    /\ WF_vars(BatchGenerateReturn)

(***************************************************************************)
(* BaseScraper.fetch_multiple_urls.  Every url has a task that runs        *)
(* _fetch_and_parse; the tasks complete in any order.                      *)
(***************************************************************************)
MultiUrls == {"u1", "u2", "u3", "u4"}

\* the lists of distinct urls of length n
DistinctSeqs(S, n) ==
    {q \in SeqsOfLen(S, n) : \A i, j \in 1..n : i # j => q[i] # q[j]}

FetchedCandidate(url, k) == [source_url |-> url, item |-> k]

\* what _fetch_and_parse(url) may do: return candidates, return [] after a
\* failed fetch or parse, or raise
FetchAndParseOutcomes(url) ==
    { [raises |-> FALSE, complaints |-> <<FetchedCandidate(url, 1), FetchedCandidate(url, 2)>>],
      [raises |-> FALSE, complaints |-> <<FetchedCandidate(url, 1)>>],
      [raises |-> FALSE, complaints |-> <<>>],
      [raises |-> TRUE, complaints |-> <<>>] }

\* variant: the loop over the results ends at the first exception
RECURSIVE CollectResults_StopAtError(_)
CollectResults_StopAtError(results) ==
    IF results = <<>> \/ results[1].raises THEN <<>>
    ELSE results[1].complaints \o CollectResults_StopAtError(Tail(results))

\* the loop over the results: an exception is logged, a non-empty list is
\* added to all_complaints
RECURSIVE CollectResults(_)
CollectResults(results) ==
    IF results = <<>> THEN <<>>
    ELSE IF results[1].raises THEN CollectResults(Tail(results))
    ELSE results[1].complaints \o CollectResults(Tail(results))

\* fetch_multiple_urls(urls) up to its gather
MultiFetchBegin ==
    /\ mf_pc = "idle"
    /\ \E n \in 1..MaxUrls : \E urls \in DistinctSeqs(MultiUrls, n) :
        /\ mf_urls' = urls
        /\ \E outcome \in [1..n -> UNION {FetchAndParseOutcomes(u) : u \in MultiUrls}] :
            /\ \A i \in 1..n : outcome[i] \in FetchAndParseOutcomes(urls[i])
            /\ mf_outcome' = outcome
    /\ mf_done' = <<>>
    /\ mf_result' = <<>>
    /\ mf_pc' = "gathering"
    /\ UNCHANGED notMultiVars

\* the task of a url returns or raises
FetchTaskDone(i) ==
    /\ mf_pc = "gathering"
    /\ \A k \in 1..Len(mf_done) : mf_done[k] # i
    /\ mf_done' = Append(mf_done, i)
    /\ UNCHANGED <<mf_pc, mf_urls, mf_outcome, mf_result>>
    /\ UNCHANGED notMultiVars

\* every task is done: gather returns and the results are put together
MultiFetchReturn ==
    /\ mf_pc = "gathering"
    /\ Len(mf_done) = Len(mf_urls)
    /\ mf_result' = CollectResults(GatherResults(mf_outcome, mf_done))
    /\ mf_pc' = "returned"
    /\ UNCHANGED <<mf_urls, mf_outcome, mf_done>>
    /\ UNCHANGED notMultiVars

MultiFetchInit ==
    /\ max_retries = 3
    /\ FetcherAtRest
    /\ CostMonitorAtRest
    /\ ProcessorAtRest
    /\ PipelineAtRest
    /\ AiServiceAtRest
    /\ MultiFetchAtRest

MultiFetchNext ==
    \/ MultiFetchBegin
    \/ \E i \in 1..Len(mf_urls) : FetchTaskDone(i)
    \/ MultiFetchReturn

SpecMultiFetch == MultiFetchInit /\ [][MultiFetchNext]_vars

(***************************************************************************)
(* BaseScraper._fetch_and_parse with the _parse_response of an adapter, as *)
(* RedditScraper.scrape calls it for one url after the other.              *)
(***************************************************************************)
\* an entry of data['data']['children']: a post with its 'data', or an
\* entry without the 'data' key
GoodPost(k) == [kind |-> "t3", has_data |-> TRUE, content |-> k]
BrokenItem == [kind |-> "t3", has_data |-> FALSE, content |-> 0]

NoResponse == [response |-> FALSE, json |-> FALSE, listing |-> FALSE, children |-> <<>>]
NotJsonBody == [response |-> TRUE, json |-> FALSE, listing |-> FALSE, children |-> <<>>]
OtherShape == [response |-> TRUE, json |-> TRUE, listing |-> FALSE, children |-> <<>>]
Listing(children) == [response |-> TRUE, json |-> TRUE, listing |-> TRUE, children |-> children]

Payloads ==
    { NoResponse, NotJsonBody, OtherShape, Listing(<<>>),
      Listing(<<GoodPost(1)>>), Listing(<<GoodPost(1), GoodPost(2)>>),
      Listing(<<BrokenItem>>), Listing(<<GoodPost(1), BrokenItem>>),
      Listing(<<BrokenItem, GoodPost(2)>>) }

ScrapedComplaint(url, item) == [source_url |-> url, content |-> item.content]

\* the loop over data['data']['children']: item['data'] raises KeyError at
\* an entry without 'data', and what was appended before stays in complaints
RECURSIVE ChildrenLoop(_, _)
ChildrenLoop(children, url) ==
    IF children = <<>> THEN [raised |-> FALSE, complaints |-> <<>>]
    ELSE IF ~children[1].has_data THEN [raised |-> TRUE, complaints |-> <<>>]
    ELSE LET rest == ChildrenLoop(Tail(children), url)
         IN  [raised |-> rest.raised,
              complaints |-> <<ScrapedComplaint(url, children[1])>> \o rest.complaints]

\* RedditScraper._parse_response: every exception is caught and logged
\* inside, and complaints is returned as far as it was filled
reddit_parse_response(payload, url) ==
    IF ~payload.json THEN [raises |-> FALSE, complaints |-> <<>>]
    ELSE IF ~payload.listing THEN [raises |-> FALSE, complaints |-> <<>>]
    ELSE [raises |-> FALSE, complaints |-> ChildrenLoop(payload.children, url).complaints]

\* a _parse_response that lets its exceptions out, as the abstract method
\* of BaseScraper allows and the tests mock it
raising_parse_response(payload, url) ==
    IF ~payload.json \/ ~payload.listing \/ ChildrenLoop(payload.children, url).raised
    THEN [raises |-> TRUE, complaints |-> <<>>]
    ELSE [raises |-> FALSE, complaints |-> ChildrenLoop(payload.children, url).complaints]

Adapters == {"reddit", "raising"}

parse_response(adapter, payload, url) ==
    IF adapter = "reddit" THEN reddit_parse_response(payload, url)
    ELSE raising_parse_response(payload, url)

\* except Exception: self._record_failed_url(url, ..., "ParseError")
ParseFailureRecorded(failed, url) == RecordFailedUrl(failed, url, "ParseError")

\* _fetch_and_parse(url): what it returns and self.failed_urls afterwards;
\* a fetch that gave up has recorded its own failure and returned None
fetch_and_parse(adapter, payload, url, failed) ==
    IF ~payload.response
    THEN [result |-> <<>>, failed_urls |-> RecordFailedUrl(failed, url, "MaxRetriesError")]
    ELSE LET parsed == parse_response(adapter, payload, url)
         IN  IF parsed.raises
             THEN [result |-> <<>>, failed_urls |-> ParseFailureRecorded(failed, url)]
             ELSE [result |-> parsed.complaints, failed_urls |-> failed]

ScrapeBegin ==
    /\ sc_pc = "idle"
    /\ \E n \in 1..MaxScrapeUrls : \E urls \in DistinctSeqs(MultiUrls, n) :
        /\ sc_urls' = urls
        /\ sc_payloads' \in [1..n -> Payloads]
    /\ sc_adapter' \in Adapters
    /\ sc_failed_urls' = <<>>
    /\ sc_results' = <<>>
    /\ sc_pc' = "scraping"
    /\ UNCHANGED notScrapeVars

\* the next url of the scrape goes through _fetch_and_parse
FetchAndParse ==
    /\ sc_pc = "scraping"
    /\ Len(sc_results) < Len(sc_urls)
    /\ LET i == Len(sc_results) + 1
           r == fetch_and_parse(sc_adapter, sc_payloads[i], sc_urls[i], sc_failed_urls)
       IN  /\ sc_results' = Append(sc_results, r.result)
           /\ sc_failed_urls' = r.failed_urls
    /\ UNCHANGED <<sc_pc, sc_adapter, sc_urls, sc_payloads>>
    /\ UNCHANGED notScrapeVars

ScrapeReturn ==
    /\ sc_pc = "scraping"
    /\ Len(sc_results) = Len(sc_urls)
    /\ sc_pc' = "returned"
    /\ UNCHANGED <<sc_adapter, sc_urls, sc_payloads, sc_failed_urls, sc_results>>
    /\ UNCHANGED notScrapeVars

ScrapeInit ==
    /\ max_retries = 3
    /\ FetcherAtRest
    /\ CostMonitorAtRest
    /\ ProcessorAtRest
    /\ PipelineAtRest
    /\ AiServiceAtRest
    /\ MultiFetchAtRest

ScrapeNext ==
    \/ ScrapeBegin
    \/ FetchAndParse
    \/ ScrapeReturn

SpecScrape == ScrapeInit /\ [][ScrapeNext]_vars

(***************************************************************************)
(* Properties of the resilient fetcher, checked under SpecFetch.           *)
(***************************************************************************)
\* classification of outcomes as the fetcher contract states it
IsOkOutcome(o) == o.kind = "status" /\ o.code >= 200 /\ o.code < 300
IsRetryableOutcome(o) ==
    \/ o.kind = "timeout"
    \/ o.kind = "status" /\ (o.code = 429 \/ (o.code >= 500 /\ o.code < 600))
IsPermanentOutcome(o) ==
    \/ o.kind = "error"
    \/ o.kind = "status" /\ o.code >= 400 /\ o.code < 500 /\ o.code # 429

RecordsOfThisFetch == Len(failed_urls) - f_before

\* C1: when the server answers attempt k (k <= max_retries) with a success
\* and every earlier attempt with a retryable outcome (timeout, 5xx, 429),
\* the finished fetch has returned that response after exactly k requests and
\* has recorded no FailureRecord.
C1_SuccessAfterRetries ==
    f_pc = "done" =>
        \A k \in 1..Len(f_script) :
            (/\ IsOkOutcome(f_script[k])
             /\ \A j \in 1..(k - 1) : IsRetryableOutcome(f_script[j]))
            => /\ f_result = "response"
               /\ f_attempts = k
               /\ RecordsOfThisFetch = 0

\* two timeouts, then a success on the third of three attempts
C1_Witness ==
    /\ f_pc = "done"
    /\ max_retries = 3
    /\ f_script = <<Timeout, Timeout, Status(200)>>
    /\ f_attempts = 3
    /\ f_result = "response"
    /\ RecordsOfThisFetch = 0

\* C2: a fetch never makes more than max_retries requests; when every one of
\* the max_retries attempts ends in a retryable outcome, the finished fetch
\* has made exactly max_retries requests, returned failure and recorded
\* exactly one FailureRecord, of type MaxRetriesError.
C2_RetriesExhausted ==
    /\ f_attempts <= max_retries
    /\ (f_pc = "done" /\ \A j \in 1..Len(f_script) : IsRetryableOutcome(f_script[j]))
        => /\ f_attempts = max_retries
           /\ f_result = "failure"
           /\ RecordsOfThisFetch = 1
           /\ failed_urls[Len(failed_urls)] =
                  [url |-> f_url, error_type |-> "MaxRetriesError"]

\* a mix of timeout, 5xx and 429 uses up three attempts
C2_Witness ==
    /\ f_pc = "done"
    /\ max_retries = 3
    /\ f_script = <<Timeout, Status(500), Status(429)>>
    /\ f_attempts = 3
    /\ f_result = "failure"
    /\ RecordsOfThisFetch = 1

\* C3: no request follows an attempt that ended in a 4xx status other than
\* 429 or in an exception that is neither a timeout nor an HTTP status error;
\* the fetch that met such an outcome has returned failure with exactly one
\* FailureRecord, whatever retry budget was left.
C3_PermanentFailureNotRetried ==
    /\ \A k \in 1..(f_attempts - 1) : ~IsPermanentOutcome(f_script[k])
    /\ (f_pc = "done" /\ f_attempts >= 1 /\ IsPermanentOutcome(f_script[f_attempts]))
        => /\ f_result = "failure"
           /\ RecordsOfThisFetch = 1

\* a 404 on the first of three allowed attempts
C3_Witness ==
    /\ f_pc = "done"
    /\ max_retries = 3
    /\ f_script[1] = Status(404)
    /\ f_attempts = 1
    /\ f_result = "failure"
    /\ RecordsOfThisFetch = 1
    /\ failed_urls[Len(failed_urls)].error_type = "HTTPStatusError"

\* the suspension the fetcher contract asks for after a 429, in seconds
ClaimedRateLimitWait(h) ==
    IF ~h.present THEN 30
    ELSE IF IntParses(h.value) THEN ParseInt(h.value)
    ELSE 60

\* C4: after an attempt answered with 429 the next request is sent only
\* after a suspension of at least the Retry-After seconds (header an
\* integer), 60 seconds (header not an integer) or 30 seconds (no header).
C4_RateLimitSuspends ==
    \A i \in 1..Len(f_waits) :
        f_waits[i].cause = "rate_limit"
        => f_waits[i].slept >= ClaimedRateLimitWait(f_waits[i].header) * TicksPerSecond

\* 1 second after the first attempt, twice the wait before after each
\* further attempt
RECURSIVE DoubledSeconds(_)
DoubledSeconds(k) == IF k <= 1 THEN 1 ELSE 2 * DoubledSeconds(k - 1)

\* the waits of base * 2^(k-1) seconds plus a jitter in [0,1), in ticks
ClaimedBackoff(k) ==
    {t \in 0..(DoubledSeconds(k) + 1) * TicksPerSecond :
        /\ t >= DoubledSeconds(k) * TicksPerSecond
        /\ t < (DoubledSeconds(k) + 1) * TicksPerSecond}

\* no backoff wait follows the last attempt of a fetch: a fetch in its
\* backoff sleep has attempts left, and a finished fetch has made one
\* suspension less than it made attempts
NoBackoffAfterLastAttempt ==
    /\ f_pc = "backoff" => (f_attempts < max_retries /\ f_wait \in ClaimedBackoff(f_attempts))
    /\ f_pc \in {"request", "done"} => Len(f_waits) = (IF f_attempts = 0 THEN 0 ELSE f_attempts - 1)

SuccessfulInWindow(days) ==
    {i \in 1..Len(usage_history) :
        /\ usage_history[i].idea_generated
        /\ usage_history[i].timestamp > now - days}

RECURSIVE TokensOver(_)
TokensOver(S) ==
    IF S = {} THEN 0
    ELSE LET i == CHOOSE x \in S : TRUE
         IN  usage_history[i].tokens_used + TokensOver(S \ {i})

C11_ContinueIffBothChecksPass ==
    should_continue_processing
        <=> (~check_daily_limit.limit_exceeded /\ check_cost_guard(7).passed)

\* more than $100 spent in the last day while the mean stays under the
\* ceiling: the guard passes, the daily check does not, processing stops
C11_Witness ==
    /\ Len(usage_history) >= 2
    /\ check_daily_limit.limit_exceeded
    /\ check_daily_limit.daily_cost = 120 * MicroPerDollar
    /\ check_cost_guard(7).passed
    /\ ~should_continue_processing

\* positions of the ledger records, successful or not, of the last day
InLastDay == {i \in 1..Len(usage_history) : usage_history[i].timestamp > now - 1}

RECURSIVE CostOver(_)
CostOver(S) ==
    IF S = {} THEN 0
    ELSE LET i == CHOOSE x \in S : TRUE
         IN  usage_history[i].cost + CostOver(S \ {i})

\* C22: the daily limit check reports as daily_cost the sum of the cost of
\* all ledger records of the last day, successful or not; limit_exceeded is
\* true exactly when that sum is strictly greater than the ceiling of 100
\* dollars; remaining_budget is the ceiling minus the sum floored at 0, so
\* it is never negative and is 0 whenever the limit is exceeded.
C22_DailyLimitCheck ==
    LET sum == CostOver(InLastDay)
        ceiling == 100 * MicroPerDollar
        check == check_daily_limit
    IN  /\ check.daily_cost = sum
        /\ check.limit_exceeded <=> sum > ceiling
        /\ check.remaining_budget = (IF ceiling - sum > 0 THEN ceiling - sum ELSE 0)
        /\ check.remaining_budget >= 0
        /\ check.limit_exceeded => check.remaining_budget = 0

\* a failed generation of 40 dollars and a successful one of 60 dollars in
\* the last day: the sum is exactly the ceiling, the limit is not exceeded
\* and nothing remains of the budget
C22_Witness ==
    /\ Len(usage_history) = 2
    /\ ~usage_history[1].idea_generated
    /\ InLastDay = {1, 2}
    /\ check_daily_limit.daily_cost = 100 * MicroPerDollar
    /\ ~check_daily_limit.limit_exceeded
    /\ check_daily_limit.remaining_budget = 0

\* C19: the ledger never holds more than 1000 records, and it holds the
\* most recently recorded ones in the order in which they were recorded:
\* the record made last is its last one, the records before it follow
\* without a gap, and nothing is evicted below the cap.
C19_LedgerKeepsNewest ==
    /\ Len(usage_history) <= 1000
    /\ \A i \in 1..(Len(usage_history) - 1) :
          usage_history[i + 1].timestamp = usage_history[i].timestamp + 1
    /\ usage_history[Len(usage_history)].timestamp = now - 1
    /\ Len(usage_history) < 1000 => usage_history[1].complaint_length = 1

\* 1002 records were made: the ledger holds records 3 to 1002
C19_Witness ==
    /\ Len(usage_history) = 1000
    /\ now = 2
    /\ usage_history[1].complaint_length = 3
    /\ usage_history[1].timestamp = 0 - 998
    /\ usage_history[1000].timestamp = 1
    /\ usage_history[1000].tokens_used = 700

(***************************************************************************)
(* Properties of the complaint processor, checked under SpecProcess.       *)
(***************************************************************************)
WellFormed(c) == c.content # <<>> /\ c.source # ""

Admitted(c) == is_negative_complaint(c.content) \/ is_idea_or_request(c.content)

\* the candidates that are well-formed, pass the filter, have a fingerprint
\* outside `known` and are the first such candidate with their fingerprint
FirstOccurrences(data, known) ==
    {i \in 1..Len(data) :
        /\ WellFormed(data[i])
        /\ Admitted(data[i])
        /\ generate_hash(data[i].content) \notin known
        /\ \A j \in 1..(i - 1) :
              ~(/\ WellFormed(data[j])
                /\ Admitted(data[j])
                /\ generate_hash(data[j].content) = generate_hash(data[i].content))}

\* the candidates at the positions I, in input order
RECURSIVE PickInOrder(_, _, _)
PickInOrder(data, I, from) ==
    IF from > Len(data) THEN <<>>
    ELSE IF from \in I THEN <<data[from]>> \o PickInOrder(data, I, from + 1)
    ELSE PickInOrder(data, I, from + 1)

\* the returned complaints are the complaints of the candidates at I, in order
ReturnsComplaintsOf(I) ==
    LET expected == PickInOrder(p_input, I, 1)
        returned == p_output.complaints
    IN  /\ Len(returned) = Len(expected)
        /\ \A k \in 1..Len(expected) :
              /\ returned[k].content = expected[k].content
              /\ returned[k].source = expected[k].source
              /\ returned[k].source_url = expected[k].source_url
              /\ returned[k].content_hash = generate_hash(expected[k].content)

\* C5: the complaints returned by process_batch are, in input order, the
\* well-formed candidates that pass the filter and whose fingerprint is
\* neither in the persisted fingerprint set nor that of an earlier accepted
\* candidate of the batch (first occurrence wins).
C5_FirstOccurrenceAgainstStore ==
    p_pc = "batch" => ReturnsComplaintsOf(FirstOccurrences(p_input, p_store))

\* the fingerprint set the batch works with: the persisted one when a
\* session is given and the query succeeds, the empty set otherwise
LoadedFingerprints == IF p_session = "ok" THEN p_store ELSE {}

\* what batch_process_complaints does ensure: first occurrence wins with
\* respect to the fingerprint set it loaded and to the batch itself
FirstOccurrenceAgainstLoaded ==
    p_pc = "batch" => ReturnsComplaintsOf(FirstOccurrences(p_input, LoadedFingerprints))

\* [A, B, A', C] with A and A' colliding yields the complaints of A, B, C
FirstOccurrenceExample ==
    /\ p_pc = "batch"
    /\ p_session = "ok"
    /\ Len(p_input) = 4
    /\ p_input[1].content = T_wish
    /\ p_input[2].content = T_terrible
    /\ p_input[3].content = T_wish_light
    /\ p_input[4].content = T_bad
    /\ p_output.fate = <<"accepted", "accepted", "duplicate", "accepted">>
    /\ Len(p_output.complaints) = 3
    /\ p_output.complaints[1].content = T_wish
    /\ p_output.complaints[2].content = T_terrible
    /\ p_output.complaints[3].content = T_bad

\* the lowercase word tokens of a text, URLs and punctuation left out
RECURSIVE WordTokens(_)
WordTokens(text) ==
    IF text = <<>> THEN <<>>
    ELSE IF IsUrlPiece(Head(text)) \/ IsPunctuation(Head(text))
    THEN WordTokens(Tail(text))
    ELSE <<Lower(Head(text))>> \o WordTokens(Tail(text))

\* the first token_limit of them
TruncatedTokens(text) ==
    LET tokens == WordTokens(text)
    IN  [k \in 1..(IF Len(tokens) < token_limit THEN Len(tokens) ELSE token_limit)
            |-> tokens[k]]

\* C25: two texts whose first token_limit lowercase word tokens after URL
\* stripping are the same sequence have the same fingerprint, whatever
\* their casing, their punctuation and what follows the token limit.
C25_SameTokensSameFingerprint ==
    \A i, j \in 1..Len(p_input) :
        TruncatedTokens(p_input[i].content) = TruncatedTokens(p_input[j].content)
            => generate_hash(p_input[i].content) = generate_hash(p_input[j].content)

\* three texts in one batch: two that differ in casing, punctuation, a URL
\* and the words after the token limit and have one fingerprint, and a
\* third with other tokens and another fingerprint
C25_Witness ==
    /\ p_pc = "batch"
    /\ Len(p_input) = 3
    /\ p_input[1].content = T_wish
    /\ p_input[2].content = T_wish_light
    /\ p_input[3].content = T_bad
    /\ WordTokens(T_wish) # WordTokens(T_wish_light)
    /\ generate_hash(T_wish) = generate_hash(T_wish_light)
    /\ generate_hash(T_wish) # generate_hash(T_bad)
    /\ p_output.fate = <<"accepted", "duplicate", "accepted">>

\* C26: when process_one has accepted a candidate, a later process_one call
\* in the same run on a candidate with the same fingerprint returns None
\* and not a second Complaint.
C26_AcceptedFingerprintRemembered ==
    (/\ p_pc = "second"
     /\ ~p_output.first.is_none
     /\ generate_hash(p_input[2].content) = p_output.first.complaint.content_hash)
        => p_output.second.is_none

\* text i of the checked batch has the fingerprint of an earlier text of
\* the batch or one of the known fingerprint set
SeenBefore(i) ==
    LET h == generate_hash(p_input[i].content)
    IN  \/ h \in p_existing
        \/ \E j \in 1..(i - 1) : generate_hash(p_input[j].content) = h

\* C27: batch_check_duplicates reports as a duplicate every text whose
\* fingerprint is that of an earlier text of the same batch or is in the
\* known fingerprint set, with the internal cache and with a fingerprint
\* set supplied by the caller.
C27_BatchCheckAccumulates ==
    p_pc = "checked" =>
        /\ Len(p_output.check.results) = Len(p_input)
        /\ \A i \in 1..Len(p_input) :
              SeenBefore(i) => p_output.check.results[i].is_dup

\* the same with the internal cache only: this part holds
BatchCheckAccumulatesInCache ==
    (p_pc = "checked" /\ ~p_output.supplied) =>
        \A i \in 1..Len(p_input) :
            SeenBefore(i) <=> p_output.check.results[i].is_dup

\* with the internal cache, the second of two texts with one fingerprint
\* is a duplicate and the third text is not
BatchCheckAccumulatesExample ==
    /\ p_pc = "checked"
    /\ ~p_output.supplied
    /\ p_store = {}
    /\ Len(p_input) = 3
    /\ p_input[1].content = T_terrible
    /\ p_input[2].content = T_terrible_again
    /\ p_input[3].content = T_wish
    /\ ~p_output.check.results[1].is_dup
    /\ p_output.check.results[2].is_dup
    /\ ~p_output.check.results[3].is_dup
    /\ p_output.check.hash_cache = {generate_hash(T_terrible), generate_hash(T_wish)}

\* the store is as it was, and the batch set holds the fingerprints of the
\* complaints the batch accepted and nothing else
BatchLeavesStoreAlone ==
    /\ [][p_store' = p_store]_vars
    /\ [](p_pc = "batch" =>
            p_output.batch_hashes =
                {p_output.complaints[k].content_hash : k \in 1..Len(p_output.complaints)})

\* C28 as stated: every call of process_batch reads the persisted
\* fingerprint set exactly once, and never writes to the store.
C28_ReadsExactlyOnce ==
    /\ BatchLeavesStoreAlone
    /\ [](p_pc = "batch" => p_reads = 1)

\* C28 as amended: process_batch reads the persisted fingerprint set at most
\* once, at batch start: once when it is given a session, whether or not
\* the query succeeds, and not at all when it is given none; it never
\* writes to the store, and the fingerprints it accepts are added only to
\* the batch set.
C28_ReadsOnceWithSession ==
    /\ BatchLeavesStoreAlone
    /\ [](p_pc = "batch" =>
            /\ p_reads <= 1
            /\ p_session # "none" => p_reads = 1
            /\ p_session = "none" => p_reads = 0)

\* a batch of three candidates with a session and a store that already
\* holds a fingerprint: one read, two complaints accepted, the store as it
\* was
C28_Witness ==
    /\ p_pc = "batch"
    /\ p_session = "ok"
    /\ p_store = {generate_hash(T_wish)}
    /\ Len(p_input) = 3
    /\ p_reads = 1
    /\ Len(p_output.complaints) = 2
    /\ p_output.batch_hashes \cap p_store = {}

\* the number of candidates of the batch that met this fate
FateCount(fate) == Cardinality({i \in 1..Len(p_output.fate) : p_output.fate[i] = fate})

\* C24: the statistics of process_batch add up: total is the size of the
\* input and equals accepted + rejected by the filter + rejected as
\* duplicate + errors, every candidate being counted in exactly one of the
\* four; a candidate without content or without source is counted as an
\* error; accepted is the number of Complaints returned.
C24_StatsAddUp ==
    p_pc = "batch" =>
        LET stats == p_output.stats
        IN  /\ stats.total = Len(p_input)
            /\ stats.total = stats.processed + stats.filtered_sentiment
                                + stats.filtered_duplicate + stats.errors
            /\ Len(p_output.fate) = Len(p_input)
            /\ stats.processed = FateCount("accepted")
            /\ stats.filtered_sentiment = FateCount("filtered")
            /\ stats.filtered_duplicate = FateCount("duplicate")
            /\ stats.errors = FateCount("error")
            /\ \A i \in 1..Len(p_input) :
                  ~WellFormed(p_input[i]) <=> p_output.fate[i] = "error"
            /\ stats.processed = Len(p_output.complaints)

\* a batch of four with one candidate of each outcome
C24_Witness ==
    /\ p_pc = "batch"
    /\ p_output.stats.total = 4
    /\ p_output.stats.processed = 1
    /\ p_output.stats.filtered_sentiment = 1
    /\ p_output.stats.filtered_duplicate = 1
    /\ p_output.stats.errors = 1
    /\ p_input[4].source = ""
    /\ Len(p_output.complaints) = 1

\* C6: a candidate is rejected by the filter exactly when it is neither
\* negative nor an idea or request, in the batch call and in the single
\* call: no complaint is made of such a candidate, and a candidate that is
\* negative or an idea is turned away only as a duplicate.
C6_FilterAdmission ==
    /\ p_pc = "batch" =>
        /\ \A i \in 1..Len(p_input) :
              WellFormed(p_input[i]) =>
                  (p_output.fate[i] = "filtered" <=> ~Admitted(p_input[i]))
        /\ \A k \in 1..Len(p_output.complaints) :
              \/ is_negative_complaint(p_output.complaints[k].content)
              \/ is_idea_or_request(p_output.complaints[k].content)
    /\ p_pc = "single" =>
        /\ ~Admitted(p_input[1]) => p_output.is_none
        /\ (Admitted(p_input[1]) /\ generate_hash(p_input[1].content) \notin p_existing)
              => /\ ~p_output.is_none
                 /\ p_output.complaint.content = p_input[1].content

\* a request that is not negative is kept, a positive text is filtered out
C6_Witness ==
    /\ p_pc = "batch"
    /\ Len(p_input) = 3
    /\ p_input[1].content = T_wish
    /\ ~is_negative_complaint(T_wish)
    /\ p_input[2].content = T_amazing
    /\ p_input[3].content = T_bad
    /\ ~is_idea_or_request(T_bad)
    /\ p_output.fate = <<"accepted", "filtered", "accepted">>

(***************************************************************************)
(* Properties of the pipeline, checked under SpecPipeline.                 *)
(***************************************************************************)
StoredIds == {c.id : c \in store_complaints}

\* C7: whatever runs of the pipeline have taken place, no two persisted
\* Complaints have the same content_hash, also when the hash query at the
\* start of a batch failed: a fingerprint is persisted at most once.
C7_PersistedHashesUnique ==
    \A c1, c2 \in store_complaints :
        c1.content_hash = c2.content_hash => c1 = c2

\* a run whose hash query failed accepted a complaint with a persisted
\* fingerprint, and its commit was turned down
C7_Witness ==
    /\ pc[1] = "raised"
    /\ load_failed[1]
    /\ store_complaints # {}
    /\ \E i \in 1..Len(processed_complaints[1]) :
            /\ processed_complaints[1][i].content_hash \in StoreHashes
            /\ processed_complaints[1][i].id \notin StoredIds

\* a step of run r that starts a call of the LLM for a complaint
StartsGeneration(r) ==
    /\ pc'[r] = "generating"
    /\ pc[r] # "generating" \/ gen_idx'[r] # gen_idx[r]

\* C8: a run starts a generation call only while should_continue() holds,
\* the usage recorded by the earlier items of the run included.
C8_NoGenerationOnceOverLimit ==
    [][\A r \in RunIds : StartsGeneration(r) => should_continue_processing']_vars

\* the success flags of the records appended since the ledger had n records
FlagsSince(n) ==
    [i \in 1..(Len(usage_history) - n) |-> usage_history[n + i].idea_generated]

\* C9: the attempts at generating an idea that a run has completed, the
\* connection test included, are in the ledger one record each, in order,
\* with the success flag of the attempt.
C9_EveryAttemptRecorded ==
    \A r \in RunIds :
        pc[r] # "idle" => FlagsSince(ledger_mark[r]) = gen_log[r]

\* C15: a run of run_full_pipeline hands a stats summary to its caller
\* whatever step of it fails: no run ends in an exception.
C15_RunAlwaysReturnsStats == \A r \in RunIds : pc[r] # "raised"

\* the ideas in the store that belong to the complaints of run r
StoredIdeasOf(r) ==
    {k \in 1..Len(store_ideas) :
        \E i \in 1..Len(processed_complaints[r]) :
            store_ideas[k].complaint_id = processed_complaints[r][i].id}

RunDataPersisted(r) ==
    /\ \A i \in 1..Len(processed_complaints[r]) :
            processed_complaints[r][i] \in store_complaints
    /\ Cardinality(StoredIdeasOf(r)) = run_stats[r].ideas_generated

IsPrefix(a, b) == Len(a) <= Len(b) /\ SubSeq(b, 1, Len(a)) = a

\* C16: the Complaints and Ideas a run has accumulated stay persisted when a
\* later step of the run fails: once the ideas are committed the store
\* holds every complaint of the run and one idea per successful generation,
\* failed generations notwithstanding; no step takes a Complaint or an Idea
\* out of the store, and a failure while the FailureRecords are saved
\* leaves all of them in it.
C16_EarlierResultsKept ==
    /\ [](\A r \in RunIds :
            pc[r] \in {"commit_errors", "returned"} => RunDataPersisted(r))
    /\ [][/\ store_complaints \subseteq store_complaints'
          /\ IsPrefix(store_ideas, store_ideas')
          /\ \A r \in RunIds :
                (pc[r] = "commit_errors" /\ pc'[r] = "raised")
                    => (RunDataPersisted(r))']_vars

\* a run generated an idea, then failed to generate one for a later
\* complaint, then failed to save its FailureRecords: complaints and idea
\* are in the store
C16_Witness ==
    /\ pc[1] = "raised"
    /\ Len(processed_complaints[1]) = 2
    /\ run_stats[1].ideas_generated = 1
    /\ run_stats[1].errors = 1
    /\ gen_log[1][Len(gen_log[1])] = FALSE
    /\ scraper_failed.google_play # <<>>
    /\ store_errors = <<>>
    /\ RunDataPersisted(1)

\* the ideas made for the complaint with this id: those in the session of
\* run r and those in the store
IdeasFor(r, id) ==
    Cardinality({k \in 1..Len(pending[r].ideas) : pending[r].ideas[k].complaint_id = id})
    + Cardinality({k \in 1..Len(store_ideas) : store_ideas[k].complaint_id = id})

\* the generate_idea calls run r has made for its complaints: all it has
\* made but the first, which is the one of the connection test
ComplaintCalls(r) == IF gen_log[r] = <<>> THEN 0 ELSE Len(gen_log[r]) - 1

\* C23: within one pipeline run generate is called at most once for each
\* accepted complaint and at most one Idea exists per Complaint: the calls
\* made never outnumber the complaints, and every call that returns moves
\* the loop forward, so a complaint already handled is never generated for
\* again.
C23_OneGenerationPerComplaint ==
    /\ [](\A r \in RunIds :
            /\ ComplaintCalls(r) <= Len(processed_complaints[r])
            /\ \A i \in 1..Len(processed_complaints[r]) :
                  IdeasFor(r, processed_complaints[r][i].id) <= 1)
    /\ [][\A r \in RunIds :
            (pc[r] = "generating" /\ gen_log'[r] # gen_log[r])
                => gen_idx'[r] > gen_idx[r]]_vars

\* a run with two accepted complaints generated for both and committed the
\* two ideas, one for each complaint
C23_Witness ==
    /\ pc[1] = "commit_errors"
    /\ Len(processed_complaints[1]) = 2
    /\ ComplaintCalls(1) = 2
    /\ run_stats[1].ideas_generated = 2
    /\ IdeasFor(1, processed_complaints[1][1].id) = 1
    /\ IdeasFor(1, processed_complaints[1][2].id) = 1
    /\ processed_complaints[1][1].id # processed_complaints[1][2].id

\* the complaints of the session of run r that collide with nothing stored
NonConflicting(r) ==
    {c \in SeqToSet(pending[r].complaints) :
        \A d \in store_complaints : d.content_hash # c.content_hash}

\* C17: a commit of complaints that meets a content_hash already in the
\* store is handled as a duplicate: the run does not fail, and the
\* complaints of the batch that collide with nothing are persisted.
C17_ConflictTreatedAsDuplicate ==
    [][\A r \in RunIds :
        (/\ pc[r] = "commit_complaints"
         /\ pc'[r] # "commit_complaints"
         /\ UniqueViolation(pending[r].complaints, store_complaints))
        => /\ pc'[r] # "raised"
           /\ NonConflicting(r) \subseteq store_complaints']_vars

(***************************************************************************)
(* Properties of response validation, checked under SpecParse.             *)
(***************************************************************************)
\* a JSON integer in 1..10
IsScoreInRange(v) == v.type = "int" /\ v.val \in 1..10

\* what the validation contract accepts
MeetsContract(content) ==
    /\ content.is_json
    /\ \A f \in FieldSet(required_fields) : f \in DOMAIN content.obj
    /\ \A f \in FieldSet(score_fields) : IsScoreInRange(content.obj[f])
    /\ content.obj["idea"].type = "str"
    /\ \E i \in 1..Len(content.obj["idea"].val) :
            ~IsWhitespace(content.obj["idea"].val[i])

\* C14: _parse_response accepts a model output exactly when it is JSON, has
\* idea and the six score fields, every score is an integer in 1..10 and
\* idea is a string that is not empty after trimming.
C14_AcceptsIffValid ==
    pr_pc = "parsed" => (pr_result.ok <=> MeetsContract(pr_content))

\* some score of the response is the JSON value true or false
HasBooleanScore(content) ==
    /\ content.is_json
    /\ \E f \in FieldSet(score_fields) \cap DOMAIN content.obj :
            content.obj[f].type = "bool"

\* what _parse_response does ensure: responses without a boolean score are
\* accepted exactly when they meet the contract
AcceptsIffValidWithoutBooleans ==
    (pr_pc = "parsed" /\ ~HasBooleanScore(pr_content))
        => (pr_result.ok <=> MeetsContract(pr_content))

\* scores of 1 and 10 and an idea of 36 words are accepted
AcceptsBoundaryScores ==
    /\ pr_pc = "parsed"
    /\ pr_content = JsonObject(ResponseObject(JStr(LongIdea), JInt(1), JInt(10)))
    /\ pr_result.ok

\* the required fields the response lacks
MissingFields(content) == {f \in FieldSet(required_fields) : f \notin DOMAIN content.obj}

\* the score fields of a complete response that are not an integer in 1..10
BadScores(content) == {f \in FieldSet(score_fields) : ~IsScoreInRange(content.obj[f])}

\* the score fields of a complete response that are an integer outside 1..10
OutOfRangeScores(content) ==
    {f \in FieldSet(score_fields) :
        content.obj[f].type = "int" /\ content.obj[f].val \notin 1..10}

BlankIdea(content) ==
    \/ content.obj["idea"].type # "str"
    \/ \A i \in 1..Len(content.obj["idea"].val) : IsWhitespace(content.obj["idea"].val[i])

\* C29: a response that is not JSON, a response that lacks a field or has an
\* out-of-range score, and a response with an empty idea each make the
\* validation fail with an error of their own kind, and the kind tells the
\* caller which of them happened; what is accepted is handed over as it
\* came, no value of it replaced.
C29_ErrorKindsDistinct ==
    pr_pc = "parsed" =>
        LET c == pr_content
            r == pr_result
            complete == c.is_json /\ MissingFields(c) = {}
        IN  /\ ~c.is_json => (~r.ok /\ r.error = "Invalid JSON response")
            /\ (c.is_json /\ MissingFields(c) # {})
                    => (~r.ok /\ r.error = "Missing required field")
            /\ (complete /\ OutOfRangeScores(c) # {})
                    => (~r.ok /\ r.error = "Invalid score")
            /\ (complete /\ BadScores(c) = {} /\ c.obj["idea"].type = "str" /\ BlankIdea(c))
                    => (~r.ok /\ r.error = "Idea text cannot be empty")
            /\ r.error = "Invalid JSON response" => ~c.is_json
            /\ r.error = "Missing required field" => (c.is_json /\ r.field \in MissingFields(c))
            /\ r.error = "Invalid score" => (complete /\ r.field \in BadScores(c))
            /\ r.error = "Idea text cannot be empty" => (complete /\ BlankIdea(c))
            /\ ~r.ok => r.error \in {"Invalid JSON response", "Missing required field",
                                      "Invalid score", "Idea text cannot be empty"}
            /\ r.ok => r.idea_data = c.obj

\* a response whose idea is blank and whose scores are all in range fails
\* as an empty idea, not as a score or a field error
C29_Witness ==
    /\ pr_pc = "parsed"
    /\ pr_content = JsonObject(ResponseObject(JStr(<<" ", "\n">>), JInt(1), JInt(10)))
    /\ ~pr_result.ok
    /\ pr_result.error = "Idea text cannot be empty"

(***************************************************************************)
(* Properties of batch generation, checked under SpecBatch.                *)
(***************************************************************************)
\* the tasks whose generate call has started and has not returned or failed
InFlight == {i \in 1..Len(task_pc) : task_pc[i] \in {"calling", "cooldown"}}

\* C12: at no moment of batch_generate are more than max_concurrent generate
\* calls in flight, a call sleeping in the rate-limit cooldown included.
C12_InFlightBounded == Cardinality(InFlight) <= max_concurrent

\* three complaints under max_concurrent = 2: two calls in flight, one of
\* them in its cooldown, and the third task waiting for the semaphore
C12_Witness ==
    /\ bg_pc = "gathering"
    /\ max_concurrent = 2
    /\ Len(task_pc) = 3
    /\ task_pc[1] = "cooldown"
    /\ task_pc[2] = "calling"
    /\ task_pc[3] = "waiting"

\* the generation of item i is to succeed
ItemSucceeds(i) ==
    /\ TextLen(bg_complaints[i]) >= MinComplaintChars
    /\ task_reply[i].kind = "response"
    /\ task_reply[i].content = ValidContent

\* C13: the list batch_generate returns has one entry per input, entry i for
\* input i whatever the order of completion; every entry has exactly one of
\* result and error; an item that fails has its error in its own entry and
\* every other item is attempted and reported.
C13_OneEntryPerInput ==
    bg_pc = "returned" =>
        /\ Len(bg_results) = Len(bg_complaints)
        /\ \A i \in 1..Len(bg_complaints) :
            /\ bg_results[i].complaint = bg_complaints[i]
            /\ bg_results[i].idea_data.is_none # bg_results[i].error.is_none
            /\ bg_results[i].error.is_none <=> ItemSucceeds(i)
            /\ TextLen(bg_complaints[i]) >= MinComplaintChars => task_calls[i] = 1

\* the second item fails and finishes first, the first and third succeed
C13_Witness ==
    /\ bg_pc = "returned"
    /\ Len(bg_complaints) = 3
    /\ task_order = <<2, 3, 1>>
    /\ bg_results[1].error.is_none
    /\ ~bg_results[2].error.is_none
    /\ bg_results[3].error.is_none

\* C18: a generate call that the provider answers with a rate-limit signal
\* makes that one LLM call, sleeps once, for 60 seconds, and then hands the
\* rate-limit error to its caller; no other call sleeps.
C18_RateLimitCooldownThenRaise ==
    \A i \in 1..Len(task_pc) :
        /\ task_calls[i] <= 1
        /\ task_pc[i] = "done" =>
            IF task_calls[i] = 1 /\ task_reply[i].kind = "RateLimitError"
            THEN /\ task_sleeps[i] = <<60>>
                 /\ task_result[i].idea_data.is_none
                 /\ task_result[i].error = Just("RateLimitError")
            ELSE task_sleeps[i] = <<>>

\* a rate-limited call has slept and has raised
C18_Witness ==
    /\ Len(task_pc) = 1
    /\ task_pc[1] = "done"
    /\ task_reply[1].kind = "RateLimitError"
    /\ task_calls[1] = 1
    /\ task_sleeps[1] = <<60>>
    /\ task_result[1].error = Just("RateLimitError")

(***************************************************************************)
(* Properties of fetch_multiple_urls, checked under SpecMultiFetch.        *)
(***************************************************************************)
\* the number of candidates of the urls before url i that did not raise
RECURSIVE CandidatesBefore(_)
CandidatesBefore(i) ==
    IF i = 1 THEN 0
    ELSE CandidatesBefore(i - 1)
         + (IF mf_outcome[i - 1].raises THEN 0 ELSE Len(mf_outcome[i - 1].complaints))

\* C20: when fetch_multiple_urls has returned, its result holds the
\* candidates of every url whose fetch-and-parse did not raise and nothing
\* of a url whose fetch-and-parse raised, url by url in the order of the
\* input, whatever the order in which the fetches completed.
C20_FailuresExcludedOrderKept ==
    mf_pc = "returned" =>
        /\ Len(mf_result) = CandidatesBefore(Len(mf_urls) + 1)
        /\ \A i \in 1..Len(mf_urls) :
              ~mf_outcome[i].raises =>
                  \A k \in 1..Len(mf_outcome[i].complaints) :
                      mf_result[CandidatesBefore(i) + k] = mf_outcome[i].complaints[k]
        /\ \A k \in 1..Len(mf_result) :
              \E i \in 1..Len(mf_urls) :
                  ~mf_outcome[i].raises /\ mf_result[k].source_url = mf_urls[i]

\* three urls, the second raises, the third completes first: the result is
\* the candidates of the first url followed by those of the third
C20_Witness ==
    /\ mf_pc = "returned"
    /\ Len(mf_urls) = 3
    /\ mf_outcome[2].raises
    /\ mf_done = <<3, 2, 1>>
    /\ Len(mf_result) = 3
    /\ mf_result[1].source_url = mf_urls[1]
    /\ mf_result[2].source_url = mf_urls[1]
    /\ mf_result[3].source_url = mf_urls[3]

(***************************************************************************)
(* Properties of a scrape through _fetch_and_parse, checked under          *)
(* SpecScrape.                                                             *)
(***************************************************************************)
\* the payload was fetched and cannot be parsed: it is not JSON, it is not
\* a listing, or one of its entries lacks what the parser reads
Unparseable(payload) ==
    /\ payload.response
    /\ \/ ~payload.json
       \/ ~payload.listing
       \/ \E k \in 1..Len(payload.children) : ~payload.children[k].has_data

HasParseError(url) ==
    \E k \in 1..Len(sc_failed_urls) :
        sc_failed_urls[k].url = url /\ sc_failed_urls[k].error_type = "ParseError"

ParseFailureIsolated(i) ==
    Unparseable(sc_payloads[i]) => HasParseError(sc_urls[i]) /\ sc_results[i] = <<>>

\* C21: for every url whose fetched payload cannot be parsed, a failure
\* record of type ParseError is recorded for the url and the result for the
\* url is empty, with the forum adapter as with any other parser, and the
\* scrape goes through every url.
C21_ParseFailureRecordedAndIsolated ==
    /\ \A i \in 1..Len(sc_results) : ParseFailureIsolated(i)
    /\ sc_pc = "returned" => Len(sc_results) = Len(sc_urls)

\* the same with a _parse_response that raises: this part holds
ParseFailureIsolatedWhenRaised ==
    sc_adapter = "raising" => C21_ParseFailureRecordedAndIsolated

\* a parse failure in the first of two urls, recorded, and the second url
\* still scraped
ParseFailureIsolatedExample ==
    /\ sc_pc = "returned"
    /\ sc_adapter = "raising"
    /\ Len(sc_urls) = 2
    /\ sc_payloads[1] = NotJsonBody
    /\ HasParseError(sc_urls[1])
    /\ Len(sc_results[2]) = 2

(***************************************************************************)
(* Properties of the admission of a run, checked under SpecPipeline.       *)
(***************************************************************************)
\* run r is called in this step
RunIsCalled(r) == pc[r] = "idle" /\ pc'[r] # "idle"

\* what a run leaves behind outside its own locals: the rows of the store,
\* the failure lists of the scrapers and the usage ledger
RunEffects ==
    <<store_complaints, store_ideas, store_errors, scraper_failed, usage_history>>

\* C31: a run that is called while should_continue() is false raises at
\* once: it has scraped nothing, called the LLM for nothing and added
\* nothing to its session, and from its call to its end the store, the
\* failure lists and the ledger stay as they were.
C31_RefusedRunDoesNothing ==
    [][\A r \in RunIds :
        /\ (RunIsCalled(r) /\ ~should_continue_processing)
              => /\ pc'[r] = "raised"
                 /\ gen_log'[r] = <<>>
                 /\ all_complaints'[r] = <<>>
                 /\ pending'[r] = NoPending
                 /\ UNCHANGED RunEffects
        /\ pc[r] = "raised"
              => /\ pc'[r] \in {"raised", "idle"}
                 /\ gen_log'[r] \in {gen_log[r], <<>>}
                 /\ pending'[r] = NoPending
                 /\ UNCHANGED RunEffects]_vars

\* the second run of the service is refused because of what the first run
\* spent: it has raised with nothing scraped, nothing asked of the LLM and
\* the store as the first run left it
C31_Witness ==
    /\ runs_started = 2
    /\ pc[1] = "raised"
    /\ now = 0
    /\ ledger_mark[1] = Len(usage_history)
    /\ ~should_continue_processing
    /\ gen_log[1] = <<>>
    /\ all_complaints[1] = <<>>
    /\ store_ideas # <<>>
    /\ pending[1] = NoPending

(***************************************************************************)
(* Properties of the Complaints the processor builds, checked under        *)
(* SpecProcess.                                                            *)
(***************************************************************************)
\* the candidate's metadata with the key is_idea set to the flag of its
\* content, or the map of that key alone for a candidate without metadata
ExpectedExtraData(data) ==
    LET flag == <<"is_idea", BoolValue(is_idea_or_request(data.content))>>
    IN  IF data.metadata.given
        THEN Metadata({kv \in data.metadata.dict : kv[1] # "is_idea"} \cup {flag})
        ELSE Metadata({flag})

\* the accepted candidates among the first i of the batch
AcceptedUpTo(i) ==
    Cardinality({k \in 1..i : p_output.fate[k] = "accepted"})

\* C32: every Complaint the processor returns, from a batch or from a
\* single call, has as extra_data the metadata of its candidate with the
\* key is_idea set to is_idea_or_request(content), and the map of that key
\* alone when the candidate has no metadata.
C32_ExtraDataCarriesMetadata ==
    /\ p_pc = "batch" =>
          \A i \in 1..Len(p_input) :
              p_output.fate[i] = "accepted" =>
                  p_output.complaints[AcceptedUpTo(i)].extra_data
                      = ExpectedExtraData(p_input[i])
    /\ (p_pc = "single" /\ ~p_output.is_none) =>
          p_output.complaint.extra_data = ExpectedExtraData(p_input[1])

\* what the code does instead: no Complaint it builds has extra_data
ExtraDataIsNone ==
    /\ p_pc = "batch" =>
          \A k \in 1..Len(p_output.complaints) :
              p_output.complaints[k].extra_data = NoMetadata
    /\ (p_pc = "single" /\ ~p_output.is_none) =>
          p_output.complaint.extra_data = NoMetadata

\* a forum candidate with metadata is accepted from a batch, and its
\* Complaint has no extra_data
ExtraDataIsNoneExample ==
    /\ p_pc = "batch"
    /\ Len(p_input) = 2
    /\ p_input[2].metadata = Metadata({<<"subreddit", "apps">>})
    /\ p_output.fate = <<"accepted", "accepted">>
    /\ p_output.complaints[2].extra_data = NoMetadata

(***************************************************************************)
(* Properties of the failure list of a scraper, checked under SpecFetch.   *)
(***************************************************************************)
\* C33: a call of _retry_request appends nothing to the failure list while
\* it is trying, and when it is over it has appended exactly one record,
\* for its own url, if it returns None, and nothing if it returns a
\* response; no step removes or changes a record.
C33_OneRecordIffFailure ==
    /\ [](/\ f_pc \in {"request", "backoff"} => Len(failed_urls) = f_before
          /\ f_pc = "done" =>
                /\ f_result \in {"response", "failure"}
                /\ f_result = "failure" =>
                      /\ Len(failed_urls) = f_before + 1
                      /\ failed_urls[Len(failed_urls)].url = f_url
                /\ f_result = "response" => Len(failed_urls) = f_before)
    /\ [][\/ failed_urls' = failed_urls
          \/ /\ Len(failed_urls') = Len(failed_urls) + 1
             /\ SubSeq(failed_urls', 1, Len(failed_urls)) = failed_urls]_vars

\* the second fetch of a scraper gives up after a timeout, a rate limit
\* and a server error: the list holds the record of the first fetch and
\* one more
C33_Witness ==
    /\ f_pc = "done"
    /\ f_result = "failure"
    /\ f_script = <<Timeout, Status(429), Status(500)>>
    /\ f_attempts = 3
    /\ f_before = 1
    /\ Len(failed_urls) = 2
    /\ failed_urls[2] = [url |-> f_url, error_type |-> "MaxRetriesError"]

(***************************************************************************)
(* Properties of the failures a run writes to the store, checked under     *)
(* SpecPipeline.                                                           *)
(***************************************************************************)
\* the rows of table errors that come from the scraper of a source
ErrorRowsOf(source) ==
    Cardinality({k \in 1..Len(store_errors) : store_errors[k].source = source})

\* C34: over the runs of one service, the store holds at most one row per
\* failure its scrapers have recorded: no failure is saved by two runs.
C34_FailureSavedOnce ==
    /\ ErrorRowsOf("reddit") <= Len(scraper_failed.reddit)
    /\ ErrorRowsOf("google_play") <= Len(scraper_failed.google_play)

\* the forum scraper has recorded one failure, in the first run; the second
\* run has recorded none and has saved that failure again
FailureSavedAgainExample ==
    /\ runs_started = 2
    /\ pc[1] = "returned"
    /\ scraper_failed.reddit = <<[url |-> "u1", error_type |-> "MaxRetriesError"]>>
    /\ scraper_failed.google_play = <<>>
    /\ Len(store_errors) = 2
    /\ store_errors[1] = store_errors[2]

(***************************************************************************)
(* Properties of the order of commits and generation calls in a run,       *)
(* checked under SpecPipeline.                                             *)
(***************************************************************************)
\* the Complaints of run r that are rows of the store
CommittedInRun(r) ==
    {processed_complaints[r][i] : i \in 1..Len(processed_complaints[r])}
        \cap store_complaints

\* C35: while a run is calling generate_idea for its complaints, and after,
\* every Complaint it accepted is a row of the store; every Idea the run
\* has created has the id of a Complaint that the run accepted and that is
\* a row of the store, and so has every Idea in the store.
C35_ComplaintsCommittedBeforeIdeas ==
    /\ \A r \in RunIds :
          /\ pc[r] \in {"generating", "commit_ideas"} =>
                /\ processed_complaints[r] # <<>>
                /\ \A i \in 1..Len(processed_complaints[r]) :
                      processed_complaints[r][i] \in store_complaints
          /\ ComplaintCalls(r) > 0 =>
                \A i \in 1..Len(processed_complaints[r]) :
                    processed_complaints[r][i] \in store_complaints
          /\ \A k \in 1..Len(pending[r].ideas) :
                \E c \in CommittedInRun(r) : c.id = pending[r].ideas[k].complaint_id
    /\ \A k \in 1..Len(store_ideas) :
          \E c \in store_complaints : c.id = store_ideas[k].complaint_id

\* the second generation call of a run is under way: the two Complaints of
\* the run are rows of the store, and the Idea made for the first has its id
C35_Witness ==
    /\ pc[1] = "generating"
    /\ gen_idx[1] = 2
    /\ Len(processed_complaints[1]) = 2
    /\ Len(pending[1].ideas) = 1
    /\ pending[1].ideas[1].complaint_id = processed_complaints[1][1].id
    /\ processed_complaints[1][1] \in store_complaints
    /\ processed_complaints[1][2] \in store_complaints

(***************************************************************************)
(* Properties of the scheduler and of the manual trigger, checked under    *)
(* SpecTriggers.                                                           *)
(***************************************************************************)
\* the calls of run_scheduled_scraping that hold the flag
ScheduledInProgress ==
    {c \in ScheduledCalls : call_pc[c] \in {"session", "pipeline", "closing"}}

\* the runs of run_full_pipeline that have begun and are not over
RunsInProgress == {r \in RunIds : pc[r] \notin {"idle", "returned", "raised"}}

\* C36: at most one call of run_scheduled_scraping is past the check of
\* is_running at any time, and is_running is set exactly while one is: it
\* is reset when the run is over, returned or raised; a call made while
\* is_running is set returns without beginning a run of the pipeline.
C36_ScheduledRunsExclusive ==
    /\ [](/\ Cardinality(ScheduledInProgress) <= 1
          /\ is_running <=> ScheduledInProgress # {}
          /\ \A c \in ScheduledCalls : call_pc[c] = "skipped" => call_run[c] = 0)
    /\ [][\A c \in ScheduledCalls :
            (call_pc[c] = "idle" /\ call_pc'[c] # "idle" /\ is_running)
                => /\ call_pc'[c] = "skipped"
                   /\ pc' = pc
                   /\ runs_started' = runs_started]_vars

\* a scheduled call is skipped while the run of another is under way; a run
\* before it has raised and the flag was reset
C36_Witness ==
    /\ call_pc["s1"] = "pipeline"
    /\ call_pc["s2"] = "skipped"
    /\ is_running
    /\ runs_started = 2
    /\ pc[call_run["s1"]] = "scrape_google_play"
    /\ Cardinality(RunsInProgress) = 1

\* C37: at most one run of run_full_pipeline of the scraping service is in
\* progress at any time, whichever trigger started it.
C37_OneRunAtATime == Cardinality(RunsInProgress) <= 1

\* a scheduled run and a run started by POST /scraping/run are under way
\* together: both have read the same failure list and the same store, both
\* have accepted the same forum complaint, and the commit of the second
\* can only be turned down
RunsInterleaveExample ==
    /\ call_pc["s1"] = "pipeline"
    /\ call_pc["m1"] = "pipeline"
    /\ is_running
    /\ pc[call_run["s1"]] = "commit_errors"
    /\ pc[call_run["m1"]] = "commit_complaints"
    /\ Len(scraper_failed.reddit) = 2
    /\ Len(pending[call_run["s1"]].errors) = 2
    /\ UniqueViolation(pending[call_run["m1"]].complaints, store_complaints)

(***************************************************************************)
(* Termination of batch_generate_ideas, checked under SpecBatchLive.       *)
(***************************************************************************)
\* C38: a call of batch_generate_ideas with max_concurrent >= 1 returns in
\* the end, whatever the complaints and whatever the LLM answers, with one
\* entry for every complaint.
C38_BatchEventuallyReturns ==
    (bg_pc = "gathering" /\ max_concurrent >= 1)
        ~> (/\ bg_pc = "returned"
            /\ Len(bg_results) = Len(bg_complaints)
            /\ \A i \in 1..Len(bg_results) : bg_results[i] # <<>>)

\* three complaints through one slot: the first call failed, the others
\* waited for the slot, and the batch has returned its three entries
C38_Witness ==
    /\ bg_pc = "returned"
    /\ max_concurrent = 1
    /\ Len(bg_complaints) = 3
    /\ Len(bg_results) = 3
    /\ ~bg_results[1].error.is_none
    /\ \A i \in 1..3 : task_calls[i] = 1
    /\ task_order = <<1, 2, 3>>
    /\ semaphore = 1

====
